---- MODULE Spec2Model ----
(***************************************************************************)
(* VidKit timeline edit engine: the project's scene list, edit log and     *)
(* undo stack (backend/models/project.py), the nine edit handlers          *)
(* (backend/edit/engine.py), the range-deletion translator                 *)
(* (backend/edit/transcript.py) and the edit / undo endpoints              *)
(* (backend/api/edit.py).                                                  *)
(*                                                                         *)
(* Units.  Source times are integers in centiseconds (100 = 1.0 s); speed, *)
(* energy and quality_score are integers in hundredths (100 = 1.0).  The   *)
(* Python code computes on floats; rounding of float sums is not modelled. *)
(* A scene description is the sequence of its "; "-separated parts.  The   *)
(* wall-clock timestamp of an Edit is not modelled.                        *)
(***************************************************************************)
EXTENDS Integers, Sequences, FiniteSets, TLC

VARIABLES project, last, hist, nops

vars == <<project, last, hist, nops>>

(***************************************************************************)
(* Bounds of the model.                                                    *)
(***************************************************************************)
\* Number of requests (edit, undo, range deletion) in one behaviour of Spec.
MaxOps == 3
\* Length the edit log may reach in SpecDeep (more than MAX_SNAPSHOTS).
MaxDeepEdits == 52
\* Number of requests in one behaviour of SpecUnit.
MaxUnitOps == 2
\* Number of range deletions in one behaviour of SpecRange.
MaxRangeOps == 2
\* Number of requests in one behaviour of SpecFiller.
MaxFillerOps == 2

(***************************************************************************)
(* Program constants.                                                      *)
(***************************************************************************)
MAX_SNAPSHOTS == 50
SPEED_MIN == 25
SPEED_MAX == 400
DEFAULT_SPEED == 100
DEFAULT_SCORE == 50
DEFAULT_TRANSITION_DURATION == 50
DEFAULT_FONT_SIZE == 48
\* delete_word's buffer around the word (0.05 s)
WORD_BUFFER == 5
\* the raw duration a scene must exceed to survive the ghost-scene sweep
GHOST_THRESHOLD == 5

(***************************************************************************)
(* Generic helpers: Python dict.get, list slicing, list.insert.            *)
(***************************************************************************)
Get(d, k, default) == IF k \in DOMAIN d THEN d[k] ELSE default

Min(a, b) == IF a <= b THEN a ELSE b
Max(a, b) == IF a >= b THEN a ELSE b

\* seq[-n:] for n > 0
LastN(seq, n) ==
    IF Len(seq) <= n THEN seq ELSE SubSeq(seq, Len(seq) - n + 1, Len(seq))

\* seq without its element at position i (1-based)
RemoveAt(seq, i) == SubSeq(seq, 1, i - 1) \o SubSeq(seq, i + 1, Len(seq))

\* list.insert(idx, x) with Python's 0-based idx: a negative idx counts from
\* the end, and the result is clamped into [0, len].
ListInsert(seq, idx, x) ==
    LET n == Len(seq)
        j == IF idx < 0 THEN Max(idx + n, 0) ELSE Min(idx, n)
    IN SubSeq(seq, 1, j) \o <<x>> \o SubSeq(seq, j + 1, n)

\* A JSON value of an edit's parameter map: a number or a string.
Num(n) == [num |-> n]
Str(s) == [str |-> s]
IsNum(v) == DOMAIN v = {"num"}
NoParams == [k \in {} |-> 0]

(***************************************************************************)
(* Data model (backend/models/project.py).                                 *)
(***************************************************************************)
\* SceneType: member name -> value
SceneTypeValue ==
    [TALKING_HEAD |-> "talking_head", SCREEN_RECORDING |-> "screen_recording",
     BROLL |-> "broll", TEXT_SLIDE |-> "text_slide", DEAD_AIR |-> "dead_air",
     UNKNOWN |-> "unknown"]

\* SceneType(value): the member with that value
SceneTypeOf(v) == CHOOSE m \in DOMAIN SceneTypeValue : SceneTypeValue[m] = v

\* EditKind values
EditKinds == {"delete", "reorder", "trim", "speed", "split", "merge",
              "text_overlay", "transition", "crop"}

TranscriptWord(word, start, end, confidence, is_filler) ==
    [word |-> word, start |-> start, end |-> end,
     confidence |-> confidence, is_filler |-> is_filler]

TextOverlay(text, position, start_offset, duration, font_size, color, bg_color) ==
    [text |-> text, position |-> position, start_offset |-> start_offset,
     duration |-> duration, font_size |-> font_size, color |-> color,
     bg_color |-> bg_color]

\* Scene(id, start, end) with the dataclass defaults for every other field
Scene(id, start, end) ==
    [id |-> id, start |-> start, end |-> end, scene_type |-> "UNKNOWN",
     description |-> <<>>, transcript |-> <<>>, thumbnail_path |-> "",
     energy |-> DEFAULT_SCORE, quality_score |-> DEFAULT_SCORE,
     has_speech |-> FALSE, is_filler |-> FALSE, is_dead_air |-> FALSE,
     speed |-> DEFAULT_SPEED, overlays |-> <<>>, transition_in |-> "",
     transition_duration |-> DEFAULT_TRANSITION_DURATION]

Edit(kind, target_scene_id, params) ==
    [kind |-> kind, target_scene_id |-> target_scene_id, params |-> params]

\* Project() with the given scenes and source frame size
NewProject(scenes, width, height) ==
    [scenes |-> scenes, edits |-> <<>>, snapshots |-> <<>>,
     width |-> width, height |-> height,
     crop_width |-> 0, crop_height |-> 0,
     status |-> "ready", error |-> ""]

(***************************************************************************)
(* Snapshot serialisation: _scene_to_dict / _scenes_from_list.             *)
(***************************************************************************)
WordToDict(w) ==
    [word |-> w.word, start |-> w.start, end |-> w.end,
     confidence |-> w.confidence, is_filler |-> w.is_filler]

OverlayToDict(o) ==
    [text |-> o.text, position |-> o.position, start_offset |-> o.start_offset,
     duration |-> o.duration, font_size |-> o.font_size, color |-> o.color,
     bg_color |-> o.bg_color]

\* A serialisation that forgets the playback speed.
Mutant_scene_to_dict_NoSpeed(s) ==
    [id |-> s.id, start |-> s.start, end |-> s.end,
     scene_type |-> SceneTypeValue[s.scene_type],
     description |-> s.description,
     transcript |-> [i \in 1..Len(s.transcript) |-> WordToDict(s.transcript[i])],
     thumbnail_path |-> s.thumbnail_path,
     energy |-> s.energy, quality_score |-> s.quality_score,
     has_speech |-> s.has_speech, is_filler |-> s.is_filler,
     is_dead_air |-> s.is_dead_air,
     overlays |-> [i \in 1..Len(s.overlays) |-> OverlayToDict(s.overlays[i])],
     transition_in |-> s.transition_in,
     transition_duration |-> s.transition_duration]

_scene_to_dict(s) ==
    [id |-> s.id, start |-> s.start, end |-> s.end,
     scene_type |-> SceneTypeValue[s.scene_type],
     description |-> s.description,
     transcript |-> [i \in 1..Len(s.transcript) |-> WordToDict(s.transcript[i])],
     thumbnail_path |-> s.thumbnail_path,
     energy |-> s.energy, quality_score |-> s.quality_score,
     has_speech |-> s.has_speech, is_filler |-> s.is_filler,
     is_dead_air |-> s.is_dead_air,
     speed |-> s.speed,
     overlays |-> [i \in 1..Len(s.overlays) |-> OverlayToDict(s.overlays[i])],
     transition_in |-> s.transition_in,
     transition_duration |-> s.transition_duration]

WordFromDict(w) ==
    TranscriptWord(w.word, w.start, w.end,
                   Get(w, "confidence", 100), Get(w, "is_filler", FALSE))

OverlayFromDict(o) ==
    TextOverlay(o.text, o.position, o.start_offset, o.duration,
                o.font_size, o.color, o.bg_color)

SceneFromDict(d) ==
    LET words == Get(d, "transcript", <<>>)
        ovs == Get(d, "overlays", <<>>)
    IN [id |-> d.id, start |-> d.start, end |-> d.end,
        scene_type |-> SceneTypeOf(Get(d, "scene_type", "unknown")),
        description |-> Get(d, "description", <<>>),
        transcript |-> [i \in 1..Len(words) |-> WordFromDict(words[i])],
        thumbnail_path |-> Get(d, "thumbnail_path", ""),
        energy |-> Get(d, "energy", DEFAULT_SCORE),
        quality_score |-> Get(d, "quality_score", DEFAULT_SCORE),
        has_speech |-> Get(d, "has_speech", FALSE),
        is_filler |-> Get(d, "is_filler", FALSE),
        is_dead_air |-> Get(d, "is_dead_air", FALSE),
        speed |-> Get(d, "speed", DEFAULT_SPEED),
        overlays |-> [i \in 1..Len(ovs) |-> OverlayFromDict(ovs[i])],
        transition_in |-> Get(d, "transition_in", ""),
        transition_duration |-> Get(d, "transition_duration",
                                    DEFAULT_TRANSITION_DURATION)]

_scenes_from_list(dicts) == [i \in 1..Len(dicts) |-> SceneFromDict(dicts[i])]

(***************************************************************************)
(* Project.snapshot / Project.undo.                                        *)
(***************************************************************************)
\* A snapshot that keeps the oldest 50 entries instead of the newest.
Mutant_snapshot_KeepOldest(p) ==
    LET snap == [i \in 1..Len(p.scenes) |-> _scene_to_dict(p.scenes[i])]
        pushed == Append(p.snapshots, snap)
    IN [p EXCEPT !.snapshots =
            IF Len(pushed) > MAX_SNAPSHOTS
            THEN SubSeq(pushed, 1, MAX_SNAPSHOTS) ELSE pushed]

\* A snapshot that never drops an entry.
Mutant_snapshot_Unbounded(p) ==
    LET snap == [i \in 1..Len(p.scenes) |-> _scene_to_dict(p.scenes[i])]
    IN [p EXCEPT !.snapshots = Append(p.snapshots, snap)]

snapshot(p) ==
    LET snap == [i \in 1..Len(p.scenes) |-> _scene_to_dict(p.scenes[i])]
        pushed == Append(p.snapshots, snap)
    IN [p EXCEPT !.snapshots =
            IF Len(pushed) > MAX_SNAPSHOTS
            THEN LastN(pushed, MAX_SNAPSHOTS) ELSE pushed]

\* An undo that clears the scene list when there is nothing to undo.
Mutant_undo_ClearsOnEmpty(p) ==
    IF p.snapshots = <<>>
    THEN [project |-> [p EXCEPT !.scenes = <<>>], ok |-> FALSE]
    ELSE LET n == Len(p.snapshots)
         IN [project |->
                [p EXCEPT !.snapshots = SubSeq(p.snapshots, 1, n - 1),
                          !.scenes = _scenes_from_list(p.snapshots[n]),
                          !.edits = IF p.edits # <<>>
                                    THEN SubSeq(p.edits, 1, Len(p.edits) - 1)
                                    ELSE p.edits],
             ok |-> TRUE]

\* An undo that also puts the crop override back to "use original".
Mutant_undo_ResetsCrop(p) ==
    IF p.snapshots = <<>>
    THEN [project |-> p, ok |-> FALSE]
    ELSE LET n == Len(p.snapshots)
         IN [project |->
                [p EXCEPT !.snapshots = SubSeq(p.snapshots, 1, n - 1),
                          !.scenes = _scenes_from_list(p.snapshots[n]),
                          !.edits = IF p.edits # <<>>
                                    THEN SubSeq(p.edits, 1, Len(p.edits) - 1)
                                    ELSE p.edits,
                          !.crop_width = 0, !.crop_height = 0],
             ok |-> TRUE]

\* undo: the project afterwards and the returned flag
undo(p) ==
    IF p.snapshots = <<>>
    THEN [project |-> p, ok |-> FALSE]
    ELSE LET n == Len(p.snapshots)
         IN [project |->
                [p EXCEPT !.snapshots = SubSeq(p.snapshots, 1, n - 1),
                          !.scenes = _scenes_from_list(p.snapshots[n]),
                          !.edits = IF p.edits # <<>>
                                    THEN SubSeq(p.edits, 1, Len(p.edits) - 1)
                                    ELSE p.edits],
             ok |-> TRUE]

(***************************************************************************)
(* Edit handlers (backend/edit/engine.py).  Each yields the project after  *)
(* the handler and whether the handler raised (a TypeError on a parameter  *)
(* that is not a number); a handler that raises leaves the mutations it    *)
(* made before the failing statement in place.                             *)
(***************************************************************************)
Val(v) == IF IsNum(v) THEN v.num ELSE v.str

Done(p) == [project |-> p, raised |-> FALSE]
Raise(p) == [project |-> p, raised |-> TRUE]

\* index of the first scene with this id, 0 if none
IndexOfId(scenes, id) ==
    IF \E i \in 1..Len(scenes) : scenes[i].id = id
    THEN CHOOSE i \in 1..Len(scenes) :
            scenes[i].id = id /\ \A j \in 1..(i - 1) : scenes[j].id # id
    ELSE 0

\* A delete that removes the first scene when the target id is absent.
Mutant_delete_scene_AbsentHitsFirst(p, e) ==
    IF IndexOfId(p.scenes, e.target_scene_id) = 0
    THEN Done([p EXCEPT !.scenes = IF @ = <<>> THEN @ ELSE Tail(@)])
    ELSE Done([p EXCEPT !.scenes =
                  SelectSeq(@, LAMBDA s : s.id # e.target_scene_id)])

_delete_scene(p, e) ==
    Done([p EXCEPT !.scenes = SelectSeq(@, LAMBDA s : s.id # e.target_scene_id)])

_reorder_scene(p, e) ==
    LET new_index == Get(e.params, "new_index", Num(0))
        i == IndexOfId(p.scenes, e.target_scene_id)
    IN IF i = 0 THEN Done(p)
       ELSE LET scene == p.scenes[i]
                removed == RemoveAt(p.scenes, i)
            IN IF ~IsNum(new_index)
               THEN Raise([p EXCEPT !.scenes = removed])
               ELSE Done([p EXCEPT !.scenes =
                            ListInsert(removed,
                                       Min(new_index.num, Len(removed)), scene)])

_trim_scene(p, e) ==
    LET i == IndexOfId(p.scenes, e.target_scene_id)
        trim_start == Get(e.params, "trim_start", Num(0))
        trim_end == Get(e.params, "trim_end", Num(0))
    IN IF i = 0 THEN Done(p)
       ELSE IF ~IsNum(trim_start) THEN Raise(p)
       ELSE LET start == p.scenes[i].start + trim_start.num
            IN IF ~IsNum(trim_end)
               THEN Raise([p EXCEPT !.scenes[i].start = start])
               ELSE LET end == p.scenes[i].end - trim_end.num
                    IN Done([p EXCEPT
                          !.scenes[i].start = start,
                          !.scenes[i].end = end,
                          !.scenes[i].transcript =
                              SelectSeq(@, LAMBDA w : w.start >= start
                                                      /\ w.end <= end)])

\* A speed handler that bounds the speed from above only.
Mutant_speed_scene_NoFloor(p, e) ==
    LET i == IndexOfId(p.scenes, e.target_scene_id)
        speed == Get(e.params, "speed", Num(DEFAULT_SPEED))
    IN IF i = 0 THEN Done(p)
       ELSE IF ~IsNum(speed) THEN Raise(p)
       ELSE Done([p EXCEPT !.scenes[i].speed = Min(SPEED_MAX, speed.num)])

_speed_scene(p, e) ==
    LET i == IndexOfId(p.scenes, e.target_scene_id)
        speed == Get(e.params, "speed", Num(DEFAULT_SPEED))
    IN IF i = 0 THEN Done(p)
       ELSE IF ~IsNum(speed) THEN Raise(p)
       ELSE Done([p EXCEPT !.scenes[i].speed =
                     Max(SPEED_MIN, Min(SPEED_MAX, speed.num))])

\* A split whose new scene starts at the default speed.
Mutant_split_scene_DefaultSpeed(p, e) ==
    LET split_at == Get(e.params, "split_at", Num(0))
        i == IndexOfId(p.scenes, e.target_scene_id)
    IN IF i = 0 THEN Done(p)
       ELSE IF ~IsNum(split_at) THEN Raise(p)
       ELSE LET scene == p.scenes[i]
                abs_split == scene.start + split_at.num
            IN IF abs_split <= scene.start \/ abs_split >= scene.end
               THEN Done(p)
               ELSE LET scene2 ==
                          [Scene(scene.id \o "b", abs_split, scene.end)
                           EXCEPT !.scene_type = scene.scene_type,
                                  !.description = scene.description,
                                  !.transcript =
                                      SelectSeq(scene.transcript,
                                                LAMBDA w : w.start >= abs_split),
                                  !.thumbnail_path = scene.thumbnail_path,
                                  !.energy = scene.energy,
                                  !.quality_score = scene.quality_score,
                                  !.has_speech = scene.has_speech]
                        scene1 ==
                          [scene EXCEPT
                              !.end = abs_split,
                              !.transcript =
                                  SelectSeq(@, LAMBDA w : w.end <= abs_split)]
                    IN Done([p EXCEPT !.scenes =
                                SubSeq(p.scenes, 1, i - 1) \o <<scene1, scene2>>
                                \o SubSeq(p.scenes, i + 1, Len(p.scenes))])

\* the identifier split gives the new scene: f"{scene.id}b"
SplitId(id) == id \o "b"

_split_scene(p, e) ==
    LET split_at == Get(e.params, "split_at", Num(0))
        i == IndexOfId(p.scenes, e.target_scene_id)
    IN IF i = 0 THEN Done(p)
       ELSE IF ~IsNum(split_at) THEN Raise(p)
       ELSE LET scene == p.scenes[i]
                abs_split == scene.start + split_at.num
            IN IF abs_split <= scene.start \/ abs_split >= scene.end
               THEN Done(p)
               ELSE LET scene2 ==
                          [Scene(SplitId(scene.id), abs_split, scene.end)
                           EXCEPT !.scene_type = scene.scene_type,
                                  !.description = scene.description,
                                  !.transcript =
                                      SelectSeq(scene.transcript,
                                                LAMBDA w : w.start >= abs_split),
                                  !.thumbnail_path = scene.thumbnail_path,
                                  !.energy = scene.energy,
                                  !.quality_score = scene.quality_score,
                                  !.has_speech = scene.has_speech,
                                  !.speed = scene.speed]
                        scene1 ==
                          [scene EXCEPT
                              !.end = abs_split,
                              !.transcript =
                                  SelectSeq(@, LAMBDA w : w.end <= abs_split)]
                    IN Done([p EXCEPT !.scenes =
                                SubSeq(p.scenes, 1, i - 1) \o <<scene1, scene2>>
                                \o SubSeq(p.scenes, i + 1, Len(p.scenes))])

\* A merge that keeps the target's own energy.
Mutant_merge_scenes_OwnEnergy(p, e) ==
    LET n == Len(p.scenes)
        hits == {k \in 1..(n - 1) : p.scenes[k].id = e.target_scene_id}
        i == IF hits = {} THEN 0 ELSE CHOOSE k \in hits : \A m \in hits : k <= m
    IN IF i = 0 THEN Done(p)
       ELSE LET scene == p.scenes[i]
                next_scene == p.scenes[i + 1]
                merged ==
                  [scene EXCEPT
                      !.end = next_scene.end,
                      !.transcript = @ \o next_scene.transcript,
                      !.has_speech = @ \/ next_scene.has_speech,
                      !.description = @ \o next_scene.description,
                      !.quality_score = Min(@, next_scene.quality_score)]
            IN Done([p EXCEPT !.scenes =
                        RemoveAt([p.scenes EXCEPT ![i] = merged], i + 1)])

_merge_scenes(p, e) ==
    LET n == Len(p.scenes)
        hits == {k \in 1..(n - 1) : p.scenes[k].id = e.target_scene_id}
        i == IF hits = {} THEN 0 ELSE CHOOSE k \in hits : \A m \in hits : k <= m
    IN IF i = 0 THEN Done(p)
       ELSE LET scene == p.scenes[i]
                next_scene == p.scenes[i + 1]
                merged ==
                  [scene EXCEPT
                      !.end = next_scene.end,
                      !.transcript = @ \o next_scene.transcript,
                      !.has_speech = @ \/ next_scene.has_speech,
                      !.description = @ \o next_scene.description,
                      !.energy = Max(@, next_scene.energy),
                      !.quality_score = Min(@, next_scene.quality_score)]
            IN Done([p EXCEPT !.scenes =
                        RemoveAt([p.scenes EXCEPT ![i] = merged], i + 1)])

_text_overlay(p, e) ==
    LET i == IndexOfId(p.scenes, e.target_scene_id)
        ov == TextOverlay(Val(Get(e.params, "text", Str(""))),
                          Val(Get(e.params, "position", Str("bottom"))),
                          Val(Get(e.params, "start_offset", Num(0))),
                          Val(Get(e.params, "duration", Num(0))),
                          Val(Get(e.params, "font_size", Num(DEFAULT_FONT_SIZE))),
                          Val(Get(e.params, "color", Str("white"))),
                          Val(Get(e.params, "bg_color", Str("black@0.5"))))
    IN IF i = 0 THEN Done(p)
       ELSE Done([p EXCEPT !.scenes[i].overlays = Append(@, ov)])

_transition(p, e) ==
    LET i == IndexOfId(p.scenes, e.target_scene_id)
    IN IF i = 0 THEN Done(p)
       ELSE Done([p EXCEPT
               !.scenes[i].transition_in = Val(Get(e.params, "type", Str("fade"))),
               !.scenes[i].transition_duration =
                   Val(Get(e.params, "duration",
                           Num(DEFAULT_TRANSITION_DURATION)))])

_crop(p, e) ==
    Done([p EXCEPT !.crop_width = Val(Get(e.params, "width", Num(p.width))),
                   !.crop_height = Val(Get(e.params, "height", Num(p.height)))])

\* apply_edit: snapshot, log, dispatch on the kind
apply_edit(p, e) ==
    LET p1 == snapshot(p)
        p2 == [p1 EXCEPT !.edits = Append(@, e)]
    IN CASE e.kind = "delete" -> _delete_scene(p2, e)
         [] e.kind = "reorder" -> _reorder_scene(p2, e)
         [] e.kind = "trim" -> _trim_scene(p2, e)
         [] e.kind = "speed" -> _speed_scene(p2, e)
         [] e.kind = "split" -> _split_scene(p2, e)
         [] e.kind = "merge" -> _merge_scenes(p2, e)
         [] e.kind = "text_overlay" -> _text_overlay(p2, e)
         [] e.kind = "transition" -> _transition(p2, e)
         [] e.kind = "crop" -> _crop(p2, e)
         [] OTHER -> Done(p2)

(***************************************************************************)
(* Range deletion (backend/edit/transcript.py).  affected_scenes holds     *)
(* references to Scene objects: the handlers mutate those objects in       *)
(* place, and an object removed from the scene list keeps the fields it    *)
(* had.  A reference is modelled as the object's position in the scene     *)
(* list (0 once it has been removed) with the object's current fields.     *)
(***************************************************************************)
Ref(pos, obj) == [pos |-> pos, obj |-> obj]

\* the reference after apply_edit(e) took the scene list from pre to post
TrackRef(pre, post, e, ref) ==
    IF ref.pos = 0 THEN ref
    ELSE IF e.kind = "delete"
    THEN IF pre[ref.pos].id = e.target_scene_id
         THEN Ref(0, pre[ref.pos])
         ELSE LET gone == Cardinality({j \in 1..(ref.pos - 1) :
                                          pre[j].id = e.target_scene_id})
              IN Ref(ref.pos - gone, post[ref.pos - gone])
    ELSE IF e.kind = "split"
    THEN LET i == IndexOfId(pre, e.target_scene_id)
             np == IF Len(post) = Len(pre) + 1 /\ ref.pos > i
                   THEN ref.pos + 1 ELSE ref.pos
         IN Ref(np, post[np])
    ELSE Ref(ref.pos, post[ref.pos])

\* A primitive edit applied to the scene list without taking a snapshot.
Mutant_LoopEdit_NoSnapshot(st, e) ==
    LET q == [apply_edit(st.p, e).project EXCEPT !.snapshots = st.p.snapshots]
    IN [p |-> q, before |-> st.p,
        refs |-> [k \in 1..Len(st.refs) |->
                     TrackRef(st.p.scenes, q.scenes, e, st.refs[k])],
        trail |-> Append(st.trail, st.p.scenes)]

\* apply_edit inside the loop: the project and the references afterwards,
\* the project as it was before this call, and (trail) the scene lists
\* that stood before each apply_edit call of the loop so far
LoopEdit(st, e) ==
    LET q == apply_edit(st.p, e).project
    IN [p |-> q, before |-> st.p,
        refs |-> [k \in 1..Len(st.refs) |->
                     TrackRef(st.p.scenes, q.scenes, e, st.refs[k])],
        trail |-> Append(st.trail, st.p.scenes)]

\* A loop body that leaves the cut-out middle scene in the list.
Mutant_RangeIter_KeepsMiddle(st, scene, start_time, end_time) ==
    IF scene.start >= start_time /\ scene.end <= end_time
    THEN LoopEdit(st, Edit("delete", scene.id, NoParams))
    ELSE IF scene.start < start_time /\ scene.end > end_time
    THEN LET st1 == LoopEdit(st, Edit("split", scene.id,
                                 [split_at |-> Num(start_time - scene.start)]))
             mid_id == scene.id \o "b"
             m == IndexOfId(st1.p.scenes, mid_id)
         IN IF m = 0 THEN st1
            ELSE LET mid_scene == st1.p.scenes[m]
                 IN LoopEdit(st1, Edit("split", mid_id,
                                [split_at |-> Num(end_time - mid_scene.start)]))
    ELSE IF scene.start < start_time
    THEN LoopEdit(st, Edit("trim", scene.id,
                           [trim_end |-> Num(scene.end - start_time)]))
    ELSE IF scene.end > end_time
    THEN LoopEdit(st, Edit("trim", scene.id,
                           [trim_start |-> Num(end_time - scene.start)]))
    ELSE st

\* one iteration of "for scene in affected_scenes"
RangeIter(st, scene, start_time, end_time) ==
    IF scene.start >= start_time /\ scene.end <= end_time
    THEN LoopEdit(st, Edit("delete", scene.id, NoParams))
    ELSE IF scene.start < start_time /\ scene.end > end_time
    THEN LET st1 == LoopEdit(st, Edit("split", scene.id,
                                 [split_at |-> Num(start_time - scene.start)]))
             mid_id == scene.id \o "b"
             m == IndexOfId(st1.p.scenes, mid_id)
         IN IF m = 0 THEN st1
            ELSE LET mid_scene == st1.p.scenes[m]
                     st2 == LoopEdit(st1, Edit("split", mid_id,
                                [split_at |-> Num(end_time - mid_scene.start)]))
                 IN LoopEdit(st2, Edit("delete", mid_id, NoParams))
    ELSE IF scene.start < start_time
    THEN LoopEdit(st, Edit("trim", scene.id,
                           [trim_end |-> Num(scene.end - start_time)]))
    ELSE IF scene.end > end_time
    THEN LoopEdit(st, Edit("trim", scene.id,
                           [trim_start |-> Num(end_time - scene.start)]))
    ELSE st

RECURSIVE RangeLoop(_, _, _, _)
RangeLoop(st, k, start_time, end_time) ==
    IF k > Len(st.refs)
    THEN [project |-> st.p, before |-> st.before, trail |-> st.trail]
    ELSE RangeLoop(RangeIter(st, st.refs[k].obj, start_time, end_time),
                   k + 1, start_time, end_time)

\* the scenes overlapping the range, in timeline order
AffectedRefs(scenes, start_time, end_time) ==
    LET all == [i \in 1..Len(scenes) |-> Ref(i, scenes[i])]
    IN SelectSeq(all, LAMBDA r : r.obj.start < end_time /\ r.obj.end > start_time)

delete_text_range(p, start_time, end_time) ==
    RangeLoop([p |-> p, before |-> p,
               refs |-> AffectedRefs(p.scenes, start_time, end_time),
               trail |-> <<>>],
              1, start_time, end_time)

(***************************************************************************)
(* The project after analysis and the requests the model draws.            *)
(***************************************************************************)
InitScenes ==
    << [Scene("a", 0, 1000) EXCEPT
           !.scene_type = "TALKING_HEAD", !.description = <<"intro">>,
           !.transcript = << TranscriptWord("um", 100, 130, 90, TRUE),
                             TranscriptWord("hello", 250, 450, 100, FALSE),
                             TranscriptWord("world.", 700, 800, 100, FALSE) >>,
           !.has_speech = TRUE, !.is_dead_air = TRUE,
           !.energy = 70, !.quality_score = 80] >>

InitProject == NewProject(InitScenes, 1920, 1080)

\* an identifier no scene ever has
NoSuchId == "zz"

Targets(p) == {p.scenes[i].id : i \in 1..Len(p.scenes)} \cup {NoSuchId}

\* the edit kinds that act on the scene with the target id
SceneKinds == EditKinds \ {"crop"}

\* the parameter maps drawn for a kind; the first is the one sent with a
\* target id that matches no scene
ParamChoices(kind) ==
    CASE kind = "reorder" -> <<[new_index |-> Str("x")], [new_index |-> Num(0)]>>
      [] kind = "trim" -> <<[trim_start |-> Num(200), trim_end |-> Num(300)]>>
      [] kind = "speed" -> <<[speed |-> Num(800)]>>
      [] kind = "split" -> <<[split_at |-> Num(400)], [split_at |-> Num(200)]>>
      [] kind = "text_overlay" -> <<[text |-> Str("hi")]>>
      [] kind = "crop" -> <<[width |-> Num(1080), height |-> Num(1920)]>>
      [] OTHER -> <<NoParams>>

\* kind strings a request may carry: the nine kinds and one that is none
RequestKinds == EditKinds \cup {"zoom"}

\* range deletions drawn (start_time, end_time)
Ranges == { <<200, 200>>, <<100, 300>>, <<300, 500>> }

(***************************************************************************)
(* Requests (backend/api/edit.py).  last is the response to the latest     *)
(* request, with the request's own arguments; hist.before is the project   *)
(* as it was right before the latest apply_edit call; nops counts the      *)
(* requests of a behaviour of Spec.                                        *)
(***************************************************************************)
Response(op, kind, status, detail, n_edits, a, b) ==
    [op |-> op, kind |-> kind, status |-> status, detail |-> detail,
     n_edits |-> n_edits, a |-> a, b |-> b]

Init ==
    /\ project = InitProject
    /\ last = Response("init", "", 200, "", 0, 0, 0)
    /\ hist = [before |-> InitProject]
    /\ nops = 0

\* An endpoint that checks the kind only after the edit went through
\* apply_edit.
Mutant_edit_project_ValidateLate(kind, target, params) ==
    LET r == apply_edit(project, Edit(kind, target, params))
    IN /\ project' = r.project
       /\ last' = IF kind \notin EditKinds
                  THEN Response("edit", kind, 400, "Unknown edit kind", 0, 0, 0)
                  ELSE Response("edit", kind, IF r.raised THEN 500 ELSE 200,
                                IF r.raised THEN "TypeError" ELSE "ok", 1, 0, 0)
       /\ hist' = [before |-> project]

\* POST /project/{id}/edit
edit_project(kind, target, params) ==
    IF kind \notin EditKinds
    THEN /\ project' = project
         /\ last' = Response("edit", kind, 400, "Unknown edit kind", 0, 0, 0)
         /\ hist' = hist
    ELSE LET r == apply_edit(project, Edit(kind, target, params))
         IN /\ project' = r.project
            /\ last' = Response("edit", kind, IF r.raised THEN 500 ELSE 200,
                                IF r.raised THEN "TypeError" ELSE "ok", 1, 0, 0)
            /\ hist' = [before |-> project]

\* POST /project/{id}/undo
undo_last_edit ==
    LET r == undo(project)
    IN /\ project' = r.project
       /\ last' = IF r.ok THEN Response("undo", "", 200, "ok", 0, 0, 0)
                  ELSE Response("undo", "", 400, "Nothing to undo", 0, 0, 0)
       /\ hist' = hist

\* POST /project/{id}/delete-text-range (q, the outcome of
\* delete_text_range, is computed once)
remove_text_range(start_time, end_time) ==
    \E q \in {delete_text_range(project, start_time, end_time)} :
       LET n == Len(q.project.edits) - Len(project.edits)
       IN /\ project' = q.project
          /\ last' = Response("delete_range", "", 200, "ok", n,
                              start_time, end_time)
          /\ hist' = [before |-> IF n > 0 THEN q.before ELSE hist.before]

(***************************************************************************)
(* Spec: any MaxOps requests, in any order.                                *)
(***************************************************************************)
Tick == nops < MaxOps /\ nops' = nops + 1

EditStep ==
    /\ Tick
    /\ \E kind \in RequestKinds :
         \E target \in (IF kind \in SceneKinds THEN Targets(project) ELSE {""}) :
           \E k \in 1..(IF target = NoSuchId THEN 1 ELSE Len(ParamChoices(kind))) :
             edit_project(kind, target, ParamChoices(kind)[k])

UndoStep == Tick /\ undo_last_edit

RangeStep == Tick /\ \E r \in Ranges : remove_text_range(r[1], r[2])

Next == EditStep \/ UndoStep \/ RangeStep

Spec == Init /\ [][Next]_vars

(***************************************************************************)
(* SpecDeep: a long run of edits and undos, to fill the undo stack past    *)
(* MAX_SNAPSHOTS.  The k-th entry of the log is always DeepEdit(k).        *)
(***************************************************************************)
DeepSchedule ==
    << Edit("split", "a", [split_at |-> Num(400)]),
       Edit("text_overlay", "a", [text |-> Str("hi")]),
       Edit("speed", "ab", [speed |-> Num(800)]),
       Edit("transition", "ab", NoParams) >>

DeepEdit(k) == DeepSchedule[((k - 1) % Len(DeepSchedule)) + 1]

DeepEditStep ==
    /\ Len(project.edits) < MaxDeepEdits
    /\ nops' = nops
    /\ LET e == DeepEdit(Len(project.edits) + 1)
       IN edit_project(e.kind, e.target_scene_id, e.params)

DeepUndoStep == nops' = nops /\ undo_last_edit

NextDeep == DeepEditStep \/ DeepUndoStep

SpecDeep == Init /\ [][NextDeep]_vars

(***************************************************************************)
(* Properties.                                                             *)
(***************************************************************************)
LastEdit(p) == p.edits[Len(p.edits)]

SerialisedScenes(scenes) == [i \in 1..Len(scenes) |-> _scene_to_dict(scenes[i])]

\* C1: an undo issued right after an edit (the latest request ended with an
\* apply_edit call) succeeds, makes the scene list equal, field for field
\* and in order, to what it was right before that edit, and leaves the edit
\* log as it was before that edit (the one entry of the edit is gone).
C1_UndoRestores ==
    [][(last.n_edits > 0 /\ last'.op = "undo")
         => /\ last'.status = 200
            /\ project'.scenes = hist.before.scenes
            /\ project'.edits = hist.before.edits]_vars

\* C1 witness: two edits and an undo; the undo went back to the two scenes
\* the first edit (a split) had made.
C1_Witness ==
    /\ last.op = "undo" /\ last.status = 200 /\ nops = 3
    /\ Len(project.edits) = 1 /\ Len(project.scenes) = 2

\* C2: after a range deletion with start < end, no scene's source interval
\* [start, end) intersects the deleted range.
C2_RangeRemoved ==
    (last.op = "delete_range" /\ last.a < last.b)
      => \A i \in 1..Len(project.scenes) :
            ~(Max(project.scenes[i].start, last.a)
                < Min(project.scenes[i].end, last.b))

\* C3: a zero-width range deletion leaves the scene list unchanged.
C3_ZeroWidthNoOp ==
    [][(last'.op = "delete_range" /\ last'.a = last'.b)
         => project'.scenes = project.scenes]_vars

\* C4: scene identifiers are pairwise distinct in every reachable state.
C4_UniqueIds ==
    \A i, j \in 1..Len(project.scenes) :
        i # j => project.scenes[i].id # project.scenes[j].id

\* C5: every word of a scene's transcript lies inside the scene's
\* [start, end], in every reachable state.
C5_WordsInside ==
    \A i \in 1..Len(project.scenes) :
        \A k \in 1..Len(project.scenes[i].transcript) :
            /\ project.scenes[i].transcript[k].start >= project.scenes[i].start
            /\ project.scenes[i].transcript[k].end <= project.scenes[i].end

\* C6: every scene has end > start, in every reachable state.
C6_PositiveLength ==
    \A i \in 1..Len(project.scenes) :
        project.scenes[i].end > project.scenes[i].start

\* C7: the undo stack never holds more than MAX_SNAPSHOTS snapshots, and
\* right after an apply_edit call it is the stack from before the call with
\* the serialised pre-edit scene list pushed on top, the oldest snapshot
\* dropped when the stack was already full.
C7_StackBounded ==
    /\ Len(project.snapshots) <= MAX_SNAPSHOTS
    /\ last.n_edits > 0 =>
         LET old == hist.before.snapshots
             snap == SerialisedScenes(hist.before.scenes)
             n == Len(old)
         IN IF n < MAX_SNAPSHOTS
            THEN project.snapshots = Append(old, snap)
            ELSE /\ Len(project.snapshots) = MAX_SNAPSHOTS
                 /\ \A i \in 1..(MAX_SNAPSHOTS - 1) :
                        project.snapshots[i] = old[i + 1]
                 /\ project.snapshots[MAX_SNAPSHOTS] = snap

\* C7 witness: an edit applied when the stack was already full.
C7_Witness ==
    /\ last.n_edits > 0
    /\ Len(hist.before.snapshots) = MAX_SNAPSHOTS
    /\ Len(project.edits) > MAX_SNAPSHOTS

\* C8: undo on an empty undo stack answers 400 "Nothing to undo" and
\* changes no field of the project.
C8_UndoEmpty ==
    [][(project.snapshots = <<>> /\ last'.op = "undo")
         => /\ project' = project
            /\ last'.status = 400
            /\ last'.detail = "Nothing to undo"]_vars

\* C8 witness: a failed undo on a project that an earlier crop edit (since
\* undone) had changed.
C8_Witness ==
    /\ last.op = "undo" /\ last.status = 400
    /\ project.snapshots = <<>> /\ project.crop_width # 0

\* C9: an edit of a scene-targeting kind whose target id matches no scene
\* raises no error and leaves the scene list as it was.
C9_AbsentTargetNoOp ==
    (last.op = "edit" /\ last.n_edits = 1) =>
        LET e == LastEdit(project)
        IN (e.kind \in SceneKinds
            /\ IndexOfId(hist.before.scenes, e.target_scene_id) = 0)
             => (last.status = 200 /\ project.scenes = hist.before.scenes)

\* C9 witness: a merge aimed at an absent id, on a project of two scenes.
C9_Witness ==
    /\ last.op = "edit" /\ last.n_edits = 1 /\ last.kind = "merge"
    /\ LastEdit(project).target_scene_id = NoSuchId
    /\ Len(project.scenes) = 2

\* C10: an edit request whose kind is none of the nine edit kinds is
\* answered 400 and changes nothing: scene list, edit log and undo stack
\* (and every other field of the project) stay as they were.
C10_UnknownKindRejected ==
    [][(last'.op = "edit" /\ last'.kind \notin EditKinds)
         => (project' = project /\ last'.status = 400)]_vars

\* C10 witness: an unknown kind rejected on a project that already has an
\* edit in its log.
C10_Witness ==
    /\ last.op = "edit" /\ last.kind = "zoom" /\ last.status = 400
    /\ Len(project.edits) >= 1 /\ Len(project.snapshots) >= 1

\* the words of a transcript, as a set
WordSet(transcript) == {transcript[k] : k \in 1..Len(transcript)}

\* the scene list held by the newest snapshot of p
TopSnapshotScenes(p) == _scenes_from_list(p.snapshots[Len(p.snapshots)])

\* the latest request was an edit that went through apply_edit, its kind is
\* kind, and the entry logged right before it has kind prev and the same
\* target
EditAfter(prev, kind) ==
    /\ last.op = "edit" /\ last.n_edits = 1 /\ last.status = 200
    /\ Len(project.edits) >= 2
    /\ LastEdit(project).kind = kind
    /\ LastEdit(hist.before).kind = prev
    /\ LastEdit(hist.before).target_scene_id = LastEdit(project).target_scene_id

\* C11: when a merge of scene id x follows a split of x that took effect
\* (the split made one more scene), the scene at x's position has the
\* [start, end) it had before the split and the same set of words.
C11_SplitMergeRoundTrip ==
    EditAfter("split", "merge") =>
        LET orig == TopSnapshotScenes(hist.before)
            i == IndexOfId(orig, LastEdit(project).target_scene_id)
        IN (i > 0 /\ Len(hist.before.scenes) = Len(orig) + 1)
             => /\ project.scenes[i].start = orig[i].start
                /\ project.scenes[i].end = orig[i].end
                /\ WordSet(project.scenes[i].transcript)
                     = WordSet(orig[i].transcript)

(***************************************************************************)
(* SpecUnit: MaxUnitOps edits drawn from wider parameter ranges, on an     *)
(* analysed project of one to three scenes that differ in classification,  *)
(* thumbnail, scores and speech.                                           *)
(***************************************************************************)
UnitScenes ==
    << [Scene("a", 0, 400) EXCEPT
           !.scene_type = "TALKING_HEAD", !.description = <<"intro">>,
           !.transcript = << TranscriptWord("um", 100, 130, 90, TRUE),
                             TranscriptWord("hello", 250, 390, 100, FALSE) >>,
           !.thumbnail_path = "a.jpg", !.has_speech = TRUE,
           !.energy = 70, !.quality_score = 80],
       [Scene("b", 400, 700) EXCEPT
           !.scene_type = "BROLL", !.description = <<"street">>,
           !.thumbnail_path = "b.jpg", !.is_dead_air = TRUE,
           !.energy = 90, !.quality_score = 60],
       [Scene("c", 700, 1000) EXCEPT
           !.scene_type = "TEXT_SLIDE", !.description = <<"outro">>,
           !.transcript = << TranscriptWord("world.", 750, 800, 100, FALSE) >>,
           !.thumbnail_path = "c.jpg", !.has_speech = TRUE,
           !.energy = 40, !.quality_score = 90] >>

\* the projects a behaviour of SpecUnit starts from: the first one, two or
\* three analysed scenes, and the three scenes after b was slowed down
UnitProjects ==
    {NewProject(SubSeq(UnitScenes, 1, k), 1920, 1080) : k \in 1..Len(UnitScenes)}
      \cup {apply_edit(NewProject(UnitScenes, 1920, 1080),
                       Edit("speed", "b", [speed |-> Num(50)])).project}

\* the edit kinds SpecUnit draws
UnitKinds == {"reorder", "speed", "split", "merge"}

\* the parameter maps SpecUnit draws for a kind
UnitParams(kind) ==
    CASE kind = "reorder" -> {[new_index |-> Num(k)] : k \in {-4, -1, 0, 1, 2, 4}}
      [] kind = "speed" -> {[speed |-> Num(v)] : v \in {10, 150, 800}}
                             \cup {NoParams}
      [] kind = "split" -> {[split_at |-> Num(v)] : v \in {-100, 0, 100, 300, 900}}
      [] OTHER -> {NoParams}

\* the ids of the scenes of p
SceneIds(p) == {p.scenes[i].id : i \in 1..Len(p.scenes)}

InitUnit ==
    /\ project \in UnitProjects
    /\ last = Response("init", "", 200, "", 0, 0, 0)
    /\ hist = [before |-> project]
    /\ nops = 0

UnitEditStep ==
    /\ nops < MaxUnitOps
    /\ nops' = nops + 1
    /\ \E kind \in UnitKinds :
         \E target \in SceneIds(project) :
           \E params \in UnitParams(kind) :
             edit_project(kind, target, params)

UnitUndoStep ==
    /\ nops < MaxUnitOps
    /\ nops' = nops + 1
    /\ undo_last_edit

NextUnit == UnitEditStep \/ UnitUndoStep

SpecUnit == InitUnit /\ [][NextUnit]_vars

\* the latest request was an edit of this kind that went through apply_edit
\* without raising
EditDone(kind) ==
    /\ last.op = "edit" /\ last.n_edits = 1 /\ last.status = 200
    /\ LastEdit(project).kind = kind

\* clamp(v, lo, hi)
Clamp(v, lo, hi) == Max(lo, Min(hi, v))

\* C12: a reorder of a scene that is in the list, with an integer new_index,
\* leaves the scene at index clamp(new_index, 0, len - 1) (0-based, len the
\* length of the list), and the other scenes in the order they had.
C12_ReorderClamps ==
    EditDone("reorder") =>
        LET e == LastEdit(project)
            old == hist.before.scenes
            i == IndexOfId(old, e.target_scene_id)
            new_index == Get(e.params, "new_index", Num(0))
            at == Clamp(new_index.num, 0, Len(old) - 1) + 1
        IN (i > 0 /\ IsNum(new_index))
             => /\ Len(project.scenes) = Len(old)
                /\ project.scenes[at] = old[i]
                /\ RemoveAt(project.scenes, at) = RemoveAt(old, i)

\* C13: a split of a scene [s, e) that is in the list, at offset split_at,
\* with p = s + split_at: if p is not strictly between s and e the scene
\* list is unchanged; otherwise the scene becomes [s, p), a scene with id
\* '<id>b', interval [p, e) and the same classification, thumbnail and
\* speed stands right after it, every other scene is as it was and in the
\* same order, and the list is one longer.
C13_SplitPartitions ==
    EditDone("split") =>
        LET e == LastEdit(project)
            old == hist.before.scenes
            new == project.scenes
            i == IndexOfId(old, e.target_scene_id)
            split_at == Get(e.params, "split_at", Num(0))
        IN (i > 0 /\ IsNum(split_at)) =>
             LET s == old[i].start
                 p == old[i].start + split_at.num
             IN IF ~(s < p /\ p < old[i].end)
                THEN new = old
                ELSE /\ Len(new) = Len(old) + 1
                     /\ \A j \in 1..(i - 1) : new[j] = old[j]
                     /\ \A j \in (i + 1)..Len(old) : new[j + 1] = old[j]
                     /\ new[i].id = old[i].id
                     /\ new[i].start = s /\ new[i].end = p
                     /\ new[i + 1].id = old[i].id \o "b"
                     /\ new[i + 1].start = p /\ new[i + 1].end = old[i].end
                     /\ new[i + 1].scene_type = old[i].scene_type
                     /\ new[i + 1].thumbnail_path = old[i].thumbnail_path
                     /\ new[i + 1].speed = old[i].speed

\* C13 witness: the slowed-down middle scene b = [4 s, 7 s) split at offset
\* 1 s: bb = [5 s, 7 s) stands right after it at b's speed.
C13_Witness ==
    /\ EditDone("split")
    /\ LastEdit(project).target_scene_id = "b"
    /\ Len(project.scenes) = 4
    /\ project.scenes[2].end = 500
    /\ project.scenes[3].id = "bb" /\ project.scenes[3].start = 500
    /\ project.scenes[3].speed = 50 /\ project.scenes[3].thumbnail_path = "b.jpg"

C15_SpeedClamped ==
    /\ \A j \in 1..Len(project.scenes) :
          /\ project.scenes[j].speed >= SPEED_MIN
          /\ project.scenes[j].speed <= SPEED_MAX
    /\ EditDone("speed") =>
         LET e == LastEdit(project)
             old == hist.before.scenes
             new == project.scenes
             i == IndexOfId(old, e.target_scene_id)
             speed == Get(e.params, "speed", Num(DEFAULT_SPEED))
         IN (i > 0 /\ IsNum(speed)) =>
              /\ new[i].speed = Clamp(speed.num, SPEED_MIN, SPEED_MAX)
              /\ Len(new) = Len(old)
              /\ \A j \in 1..Len(old) :
                    /\ new[j].start = old[j].start
                    /\ new[j].end = old[j].end
                    /\ new[j].transcript = old[j].transcript

\* C15 witness: a speed of 0.1 requested for the scene with words, which
\* now runs at 0.25.
C15_Witness ==
    /\ EditDone("speed")
    /\ LastEdit(project).target_scene_id = "a"
    /\ LastEdit(project).params = [speed |-> Num(10)]
    /\ project.scenes[1].speed = SPEED_MIN
    /\ Len(project.scenes[1].transcript) = 2

(***************************************************************************)
(* SpecRange: MaxRangeOps range deletions, with both ends on a grid that   *)
(* has points inside the scenes and on their boundaries, on the projects   *)
(* of SpecUnit and on one where a was split twice.                         *)
(***************************************************************************)
\* [a, b, c] after split a at 3 s and split a at 1 s
TwiceSplitProject ==
    apply_edit(apply_edit(NewProject(UnitScenes, 1920, 1080),
                          Edit("split", "a", [split_at |-> Num(300)])).project,
               Edit("split", "a", [split_at |-> Num(100)])).project

RangeProjects == UnitProjects \cup {TwiceSplitProject}

\* the times a range may start or end at
RangeGrid == {0, 50, 150, 400, 550, 700, 1000}

InitRange ==
    /\ project \in RangeProjects
    /\ last = Response("init", "", 200, "", 0, 0, 0)
    /\ hist = [before |-> project]
    /\ nops = 0

RangeDeleteStep ==
    /\ nops < MaxRangeOps
    /\ nops' = nops + 1
    /\ \E start_time, end_time \in RangeGrid :
          start_time < end_time /\ remove_text_range(start_time, end_time)

NextRange == RangeDeleteStep

SpecRange == InitRange /\ [][NextRange]_vars

\* no two scenes' source intervals [start, end) intersect
NonOverlapping(scenes) ==
    \A i, j \in 1..Len(scenes) :
        i # j => ~(Max(scenes[i].start, scenes[j].start)
                     < Min(scenes[i].end, scenes[j].end))

\* C16: for a range deletion with start < end: if the range lies strictly
\* inside a scene the list grows by at most one scene; if the scenes'
\* intervals were pairwise non-overlapping before, they are afterwards; and
\* every scene the range entirely spans is gone afterwards.
C16_RangeDeleteShape ==
    [][(last'.op = "delete_range" /\ last'.a < last'.b) =>
         LET old == project.scenes
             new == project'.scenes
         IN /\ (\E i \in 1..Len(old) :
                   old[i].start < last'.a /\ last'.b < old[i].end)
                 => Len(new) <= Len(old) + 1
            /\ NonOverlapping(old) => NonOverlapping(new)
            /\ \A i \in 1..Len(old) :
                  (last'.a <= old[i].start /\ old[i].end <= last'.b
                   /\ old[i].start < old[i].end)
                    => old[i].id \notin SceneIds(project')]_vars

\* C16 witness: the range 0.5 s - 1.5 s cut out of a = [0, 4 s) on three
\* scenes: a and abb stand where a stood, four scenes in all.
C16_Witness ==
    /\ last.op = "delete_range" /\ last.a = 50 /\ last.b = 150
    /\ last.n_edits = 3
    /\ Len(project.scenes) = 4
    /\ project.scenes[1].id = "a" /\ project.scenes[1].end = 50
    /\ project.scenes[2].id = "abb" /\ project.scenes[2].start = 150
    /\ project.scenes[3].id = "b"

\* p after n calls of undo
RECURSIVE UndoN(_, _)
UndoN(p, n) == IF n = 0 THEN p ELSE UndoN(undo(p).project, n - 1)

\* C17: a range deletion that applied n primitive edits leaves the log n
\* entries and the undo stack n snapshots longer (n = 0: the project is
\* untouched); from there the k-th undo, for k = 1..n, succeeds, brings
\* back the scene list that stood before the (n - k + 1)-th primitive and
\* takes one entry off the log; so n undos bring back the scene list and
\* the log that stood before the range deletion.
C17_RangeUndoable ==
    [][last'.op = "delete_range" =>
         LET r == delete_text_range(project, last'.a, last'.b)
             n == Len(r.trail)
         IN /\ project' = r.project
            /\ last'.n_edits = n
            /\ n = 0 => project' = project
            /\ Len(project'.edits) = Len(project.edits) + n
            /\ Len(project.snapshots) + n <= MAX_SNAPSHOTS
                 => /\ Len(project'.snapshots) = Len(project.snapshots) + n
                    /\ \A k \in 1..n :
                          /\ undo(UndoN(project', k - 1)).ok
                          /\ UndoN(project', k).scenes = r.trail[n - k + 1]
                          /\ Len(UndoN(project', k).edits)
                               = Len(project'.edits) - k
                    /\ UndoN(project', n).scenes = project.scenes
                    /\ UndoN(project', n).edits = project.edits
                    /\ UndoN(project', n).snapshots = project.snapshots]_vars

\* C17 witness: a second range deletion that went through split, split and
\* delete, on a project whose first range deletion had left snapshots.
C17_Witness ==
    /\ last.op = "delete_range" /\ last.n_edits = 3 /\ nops = 2
    /\ Len(project.edits) > 3 /\ Len(project.snapshots) > 3
    /\ LET n == Len(project.edits)
       IN /\ project.edits[n - 2].kind = "split"
          /\ project.edits[n - 1].kind = "split"
          /\ project.edits[n].kind = "delete"

(***************************************************************************)
(* Filler-word deletion (backend/edit/transcript.py, delete_word and       *)
(* delete_all_filler_words).                                               *)
(***************************************************************************)
FILLER_WORDS == {"um", "uh", "erm", "uhm", "hmm", "you know", "basically",
                 "literally", "i mean"}

\* text.lower().strip(".,!?"), tabulated for the word texts of the model
LowerStrip(text) ==
    CASE text = "um" -> "um"
      [] text = "Um," -> "um"
      [] text = "uh" -> "uh"
      [] text = "Uh." -> "uh"
      [] text = "hello" -> "hello"
      [] text = "Hello!" -> "hello"
      [] text = "world." -> "world"

IsFillerText(text) == LowerStrip(text) \in FILLER_WORDS

\* Scene.raw_duration, in centiseconds
raw_duration(s) == s.end - s.start

\* Scene.duration = (end - start) / speed, in centiseconds, rounded down
duration(s) == (raw_duration(s) * 100) \div s.speed

\* Scene.duration <= t, exactly
DurationAtMost(s, t) == raw_duration(s) * 100 <= t * s.speed

\* A delete_word that cuts the word's own interval, without the buffer.
Mutant_delete_word_NoBuffer(p, word) ==
    delete_text_range(p, word.start, word.end)

delete_word(p, word) ==
    delete_text_range(p, word.start - WORD_BUFFER, word.end + WORD_BUFFER)

\* the words of all scenes, scene by scene
RECURSIVE AllWords(_, _)
AllWords(scenes, i) ==
    IF i > Len(scenes) THEN <<>>
    ELSE scenes[i].transcript \o AllWords(scenes, i + 1)

\* list.sort(key=start, reverse=True): descending by start, words with equal
\* start in the order they had
RECURSIVE SortByStartDesc(_)
SortByStartDesc(words) ==
    IF words = <<>> THEN <<>>
    ELSE LET n == Len(words)
             w == words[n]
             sorted == SortByStartDesc(SubSeq(words, 1, n - 1))
             k == Cardinality({j \in 1..(n - 1) : sorted[j].start >= w.start})
         IN SubSeq(sorted, 1, k) \o <<w>> \o SubSeq(sorted, k + 1, n - 1)

\* "for word in fillers: project = delete_word(project, word)", from the
\* k-th filler on; st carries the project, the project before the latest
\* apply_edit call and the scene lists that stood before each apply_edit.
\* r, the outcome of delete_word, is bound as the element of a singleton
\* set, which makes it one value computed once.
RECURSIVE FillerLoop(_, _, _)
FillerLoop(st, fillers, k) ==
    IF k > Len(fillers) THEN st
    ELSE CHOOSE out \in
             {FillerLoop([project |-> r.project,
                          before |-> IF r.trail = <<>> THEN st.before
                                     ELSE r.before,
                          trail |-> st.trail \o r.trail],
                         fillers, k + 1) :
                 r \in {delete_word(st.project, fillers[k])}} : TRUE

\* delete_all_filler_words: the project returned, with the project before
\* the latest apply_edit call and the trail of scene lists
delete_all_filler_words(p) ==
    LET fillers == SortByStartDesc(
                       SelectSeq(AllWords(p.scenes, 1),
                                 LAMBDA w : IsFillerText(w.word)))
        r == FillerLoop([project |-> p, before |-> p, trail |-> <<>>],
                        fillers, 1)
    IN [r EXCEPT !.project.scenes =
           SelectSeq(@, LAMBDA s : raw_duration(s) > GHOST_THRESHOLD)]

\* POST /project/{id}/delete-filler-words; the response carries scene_count
\* (q, the outcome of delete_all_filler_words, is computed once)
remove_filler_words ==
    \E q \in {delete_all_filler_words(project)} :
       LET n == Len(q.trail)
       IN /\ project' = q.project
          /\ last' = Response("delete_fillers", "", 200, "ok", n,
                              Len(q.project.scenes), 0)
          /\ hist' = [before |-> IF n > 0 THEN q.before ELSE hist.before]

(***************************************************************************)
(* SpecFiller: MaxFillerOps requests (filler-word deletion, undo) on a     *)
(* project whose first scene holds one word, a filler or not, near the     *)
(* scene's start or further in, optionally a second filler, optionally     *)
(* sped up, optionally followed by a scene trimmed to 0.04 s.              *)
(***************************************************************************)
\* the single scene [0, 10 s) with the given words
FillerScene(words) ==
    [Scene("a", 0, 1000) EXCEPT
        !.scene_type = "TALKING_HEAD", !.description = <<"intro">>,
        !.transcript = words, !.has_speech = TRUE]

Word(text, start, end) ==
    TranscriptWord(text, start, end, 90, IsFillerText(text))

\* one scene [0, 10 s) at speed 1.0 whose only word is ("um", 1.0, 1.3)
OneFillerProject ==
    NewProject(<<FillerScene(<<Word("um", 100, 130)>>)>>, 1920, 1080)

\* the project with the first word (text, ws, ws + 0.3 s); uh: a second
\* filler at 5.0 - 5.2 s; speed: the speed set on a by a speed edit (none
\* for the default); short: a scene b = [10 s, 13 s) trimmed to 0.04 s
FillerProject(text, ws, uh, speed, short) ==
    LET words == <<Word(text, ws, ws + 30)>>
                   \o (IF uh THEN <<Word("Uh.", 500, 520)>> ELSE <<>>)
        scenes == <<FillerScene(words)>>
                    \o (IF short THEN <<Scene("b", 1000, 1300)>> ELSE <<>>)
        p0 == NewProject(scenes, 1920, 1080)
        p1 == IF speed = DEFAULT_SPEED THEN p0
              ELSE apply_edit(p0, Edit("speed", "a",
                                       [speed |-> Num(speed)])).project
    IN IF short
       THEN apply_edit(p1, Edit("trim", "b", [trim_end |-> Num(296)])).project
       ELSE p1

FillerProjects ==
    {FillerProject(text, ws, uh, speed, short) :
        text \in {"um", "Um,", "Hello!"}, ws \in {10, 15, 100},
        uh \in BOOLEAN, speed \in {DEFAULT_SPEED, SPEED_MAX},
        short \in BOOLEAN}

InitFiller ==
    /\ project \in FillerProjects
    /\ last = Response("init", "", 200, "", 0, 0, 0)
    /\ hist = [before |-> project]
    /\ nops = 0

FillerStep ==
    /\ nops < MaxFillerOps
    /\ nops' = nops + 1
    /\ remove_filler_words

FillerUndoStep ==
    /\ nops < MaxFillerOps
    /\ nops' = nops + 1
    /\ undo_last_edit

NextFiller == FillerStep \/ FillerUndoStep

SpecFiller == InitFiller /\ [][NextFiller]_vars

\* C18 (as stated): for the project of the single scene [0, 10 s) at speed
\* 1.0 whose only word is ("um", 1.0, 1.3), filler-word deletion leaves
\* exactly one scene, of effective duration 9.6 s, with an empty transcript.
C18_OneSceneLeft ==
    [][(project = OneFillerProject /\ last'.op = "delete_fillers")
         => /\ Len(project'.scenes) = 1
            /\ duration(project'.scenes[1]) = 960
            /\ project'.scenes[1].transcript = <<>>]_vars

\* C18 (amended): for that project, filler-word deletion leaves exactly two
\* scenes, a = [0, 0.95 s) and abb = [1.35 s, 10 s), both at speed 1.0 and
\* with empty transcripts, whose effective durations add up to 9.6 s.
C18_TwoScenesLeft ==
    [][(project = OneFillerProject /\ last'.op = "delete_fillers")
         => /\ Len(project'.scenes) = 2
            /\ project'.scenes[1].id = "a"
            /\ project'.scenes[1].start = 0 /\ project'.scenes[1].end = 95
            /\ project'.scenes[2].id = "abb"
            /\ project'.scenes[2].start = 135 /\ project'.scenes[2].end = 1000
            /\ \A i \in 1..2 : /\ project'.scenes[i].transcript = <<>>
                               /\ project'.scenes[i].speed = DEFAULT_SPEED
            /\ duration(project'.scenes[1]) + duration(project'.scenes[2]) = 960]_vars

\* C18 witness: filler-word deletion was the first request on that project
\* (the oldest snapshot is its scene list) and went through three edits.
C18_Witness ==
    /\ last.op = "delete_fillers" /\ nops = 1 /\ last.n_edits = 3
    /\ Len(project.snapshots) = 3
    /\ project.snapshots[1] = SerialisedScenes(OneFillerProject.scenes)
    /\ Len(project.scenes) = 2

\* C19: when filler-word deletion has returned, no scene has an effective
\* duration (end - start) / speed of 0.05 s or less.
C19_NoGhostScenes ==
    last.op = "delete_fillers"
      => \A i \in 1..Len(project.scenes) :
            ~DurationAtMost(project.scenes[i], GHOST_THRESHOLD)

\* C20: filler-word deletion changes the scene list only in apply_edit
\* calls: with n the number of edits it logged, the log and the undo stack
\* are n longer, the scene list it returns is the one its last apply_edit
\* call left (the list it was given when n = 0), and n undos bring back the
\* scene list it was given.
C20_FillerOnlyThroughEdits ==
    [][last'.op = "delete_fillers" =>
         LET n == last'.n_edits
         IN /\ Len(project'.edits) = Len(project.edits) + n
            /\ Len(project'.snapshots) = Len(project.snapshots) + n
            /\ project'.scenes
                 = IF n = 0 THEN project.scenes
                   ELSE apply_edit(hist'.before,
                                   LastEdit(project')).project.scenes
            /\ UndoN(project', n).scenes = project.scenes]_vars

(***************************************************************************)
(* Render (backend/render/ffmpeg.py, backend/api/render.py).  Every        *)
(* external process is run through subprocess.run with a timeout; its      *)
(* outcome is an exit status of zero ("ok"), a non-zero exit status        *)
(* ("fail"), or the timeout expiring, which raises TimeoutExpired          *)
(* ("timeout").  Durations are centiseconds; a time-stretch step is in     *)
(* ten-thousandths, the four decimals an atempo step is written with.      *)
(* Comparisons are made on exact values.                                   *)
(***************************************************************************)
\* the scenes of a rendered timeline, at most
MaxRenderScenes == 2
\* the render requests made, at most
MaxRenders == 2

max_speedup == 108
min_slowdown == 92

Abs(x) == IF x < 0 THEN -x ELSE x

Outcomes == {"ok", "fail", "timeout"}

\* the outcomes a command and its software-encoder variant would have; the
\* variant of a command that does not fail is left at "ok"
Attempts ==
    {att \in Outcomes \X Outcomes : att[1] = "fail" \/ att[2] = "ok"}

\* result = subprocess.run(cmd); if result.returncode != 0:
\* result = subprocess.run(cmd_sw): the outcomes of the invocations made
Invocations(att) ==
    IF att[1] = "fail" THEN <<att[1], att[2]>> ELSE <<att[1]>>

\* TimeoutExpired left the last invocation made
TimedOut(runs) == runs # <<>> /\ runs[Len(runs)] = "timeout"

\* the last invocation made returned exit status zero
Succeeded(runs) == runs # <<>> /\ runs[Len(runs)] = "ok"

\* f"{remaining:.4f}": n/d to four decimals, in ten-thousandths
Format4(n, d) == (2 * 10000 * n + d) \div (2 * d)

\* "while remaining > 2.0": remaining is n/d
RECURSIVE SpeedUpLoop(_, _, _)
SpeedUpLoop(filters, n, d) ==
    IF n > 2 * d THEN SpeedUpLoop(Append(filters, 20000), n, 2 * d)
    ELSE [filters |-> filters, n |-> n, d |-> d]

\* "while remaining < 0.5"
RECURSIVE SlowDownLoop(_, _, _)
SlowDownLoop(filters, n, d) ==
    IF 2 * n < d THEN SlowDownLoop(Append(filters, 5000), 2 * n, d)
    ELSE [filters |-> filters, n |-> n, d |-> d]

\* A chain of one step, whatever the speed.
Mutant_build_atempo_chain_OneStep(n, d) ==
    IF Abs(n - d) * 100 > d THEN <<Format4(n, d)>> ELSE <<>>

\* _build_atempo_chain(speed) for speed = n/d: the atempo steps, in order
_build_atempo_chain(n, d) ==
    LET a == SpeedUpLoop(<<>>, n, d)
        b == SlowDownLoop(a.filters, a.n, a.d)
    IN IF Abs(b.n - b.d) * 100 > b.d
       THEN Append(b.filters, Format4(b.n, b.d))
       ELSE b.filters

\* _extract_segment: the invocations made, whether TimeoutExpired was
\* raised, the value returned, and the audio time-stretch steps of the
\* command
_extract_segment(scene, att) ==
    LET runs == Invocations(att)
    IN [raised |-> TimedOut(runs), success |-> Succeeded(runs),
        runs |-> runs,
        afilters |-> IF Abs(scene.speed - 100) > 1
                     THEN _build_atempo_chain(scene.speed, 100) ELSE <<>>]

\* the entry an external stage leaves in the log of a render
Ran(stage, scene, runs) == [stage |-> stage, scene |-> scene, runs |-> runs]

\* "for i, scene in enumerate(project.scenes)": st carries the positions of
\* the scenes whose segment was appended, the log, and whether
\* TimeoutExpired left the loop
RECURSIVE ExtractLoop(_, _, _, _)
ExtractLoop(scenes, atts, i, st) ==
    IF i > Len(scenes) THEN st
    ELSE LET r == _extract_segment(scenes[i], atts[i])
             log == Append(st.log, Ran("extract", i, r.runs))
         IN IF r.raised
            THEN [st EXCEPT !.raised = TRUE, !.log = log]
            ELSE ExtractLoop(scenes, atts, i + 1,
                     [st EXCEPT !.log = log,
                                !.segment_paths =
                                    IF r.success THEN Append(@, i) ELSE @])

\* the duration of the concatenation of the segments
RECURSIVE ConcatDuration(_, _, _)
ConcatDuration(scenes, segment_paths, k) ==
    IF k > Len(segment_paths) THEN 0
    ELSE duration(scenes[segment_paths[k]])
           + ConcatDuration(scenes, segment_paths, k + 1)

\* word.word.strip(), tabulated for the word texts of the model
Strip(text) ==
    CASE text = "um" -> "um"
      [] text = "hello" -> "hello"
      [] text = "world." -> "world."
      [] text = "wait!" -> "wait!"
      [] text = "now" -> "now"
      [] text = "why?" -> "why?"
      [] text = " " -> ""

\* render_caption_overlay, "Collect all words"
CaptionWords(p) ==
    SelectSeq(AllWords(p.scenes, 1), LAMBDA w : Strip(w.word) # "")

\* A narration plan that stretches by the ratio, however large.
Mutant_voiceover_plan_Unclamped(video_probe, voice_duration, ext, ext_probe_ok) ==
    LET video_duration == Max(video_probe, 1)
    IN [raised |-> FALSE, runs |-> <<>>, extended |-> FALSE,
        target_duration |-> video_duration,
        chain |-> IF Abs(voice_duration - video_duration) * 1000
                       > 15 * video_duration /\ voice_duration > 0
                  THEN _build_atempo_chain(voice_duration, video_duration)
                  ELSE <<>>]

\* A narration plan that extends the picture and keeps reckoning with the
\* duration the picture had before.
Mutant_voiceover_plan_KeepsDuration(video_probe, voice_duration, ext, ext_probe_ok) ==
    LET video_duration == Max(video_probe, 1)
        tries == /\ voice_duration * 100 > max_speedup * video_duration
                 /\ voice_duration - video_duration > 3
        runs == IF tries THEN Invocations(ext) ELSE <<>>
        target_duration == video_duration
    IN [raised |-> TimedOut(runs), runs |-> runs,
        extended |-> tries /\ Succeeded(runs),
        target_duration |-> target_duration,
        chain |->
            IF voice_duration * 100 > max_speedup * target_duration
            THEN _build_atempo_chain(max_speedup, 100)
            ELSE IF voice_duration * 100 < min_slowdown * target_duration
            THEN _build_atempo_chain(min_slowdown, 100)
            ELSE IF Abs(voice_duration - target_duration) * 1000
                      > 15 * target_duration
            THEN _build_atempo_chain(voice_duration, target_duration)
            ELSE <<>>]

\* render, "Mix in voiceover if present", up to the voice chain:
\* video_probe and voice_duration are what _probe_duration returns for the
\* output and for the narration (0 when the probe fails), ext the outcomes
\* of the extension command and its software variant, ext_probe_ok whether
\* the probe of the extended file succeeds (the file lasts voice_duration,
\* by "-t").  The time-stretch steps follow volume= in voice_chain.
voiceover_plan(video_probe, voice_duration, ext, ext_probe_ok) ==
    LET video_duration == Max(video_probe, 1)
        tries == /\ voice_duration * 100 > max_speedup * video_duration
                 /\ voice_duration - video_duration > 3
        runs == IF tries THEN Invocations(ext) ELSE <<>>
        extended == tries /\ Succeeded(runs)
        probed == IF ext_probe_ok THEN voice_duration ELSE 0
        target_duration ==
            Max(IF extended THEN Max(probed, video_duration)
                ELSE video_duration, 1)
    IN [raised |-> TimedOut(runs), runs |-> runs, extended |-> extended,
        target_duration |-> target_duration,
        chain |->
            IF voice_duration * 100 > max_speedup * target_duration
            THEN _build_atempo_chain(max_speedup, 100)
            ELSE IF voice_duration * 100 < min_slowdown * target_duration
            THEN _build_atempo_chain(min_slowdown, 100)
            ELSE IF Abs(voice_duration - target_duration) * 1000
                      > 15 * target_duration
            THEN _build_atempo_chain(voice_duration, target_duration)
            ELSE <<>>]

\* render, from "Generate caption overlay if requested" to the final output
\* (lines 181-286): st after the stage, raised when TimeoutExpired left it,
\* output when the last command that wrote output_path exited with zero
FinalOutput(p, burn_captions, env, st) ==
    LET overlay_runs == IF burn_captions /\ CaptionWords(p) # <<>>
                        THEN <<env.overlay>> ELSE <<>>
        caption_overlay_path == Succeeded(overlay_runs)
        concat_runs == Invocations(env.concat)
        compose_runs == IF Succeeded(concat_runs)
                        THEN Invocations(env.compose)
                        ELSE <<"fail", "fail">>
        log1 == IF overlay_runs = <<>> THEN st.log
                ELSE Append(st.log, Ran("overlay", 0, overlay_runs))
        log2 == Append(log1, Ran("concat", 0, concat_runs))
        log3 == Append(log2, Ran("compose", 0, compose_runs))
    IN IF TimedOut(overlay_runs)
       THEN [st EXCEPT !.raised = TRUE, !.message = "timed out",
                       !.log = log1]
       ELSE IF TimedOut(concat_runs)
       THEN [st EXCEPT !.raised = TRUE, !.message = "timed out",
                       !.log = log2]
       ELSE IF ~caption_overlay_path
       THEN [st EXCEPT !.log = log2, !.output = Succeeded(concat_runs)]
       ELSE IF TimedOut(compose_runs)
       THEN [st EXCEPT !.raised = TRUE, !.message = "timed out",
                       !.log = log3]
       ELSE [st EXCEPT !.log = log3, !.captioned = Succeeded(compose_runs),
                       !.output = Succeeded(compose_runs)]

\* render, "Mix in voiceover if present" (lines 288-376); the output lasts
\* as long as the segments concatenated
MixVoiceover(p, voice_duration, env, st) ==
    IF ~(p.voiceover_path # "" /\ st.output) THEN st
    ELSE LET plan == voiceover_plan(
                         ConcatDuration(p.scenes, st.segment_paths, 1),
                         voice_duration, env.extend, TRUE)
             log1 == IF plan.runs = <<>> THEN st.log
                     ELSE Append(st.log, Ran("extend", 0, plan.runs))
             log2 == Append(log1, Ran("mix", 0, <<env.mix>>))
         IN IF plan.raised
            THEN [st EXCEPT !.raised = TRUE, !.message = "timed out",
                            !.log = log1]
            ELSE IF env.mix = "timeout"
            THEN [st EXCEPT !.raised = TRUE, !.message = "timed out",
                            !.log = log2]
            ELSE [st EXCEPT !.log = log2, !.mixed = env.mix = "ok",
                            !.target_duration = plan.target_duration,
                            !.chain = plan.chain]

\* a render that has not run any stage
NoRender ==
    [raised |-> FALSE, message |-> "", segment_paths |-> <<>>, log |-> <<>>,
     output |-> FALSE, captioned |-> FALSE, mixed |-> FALSE,
     target_duration |-> 0, chain |-> <<>>]

\* render(project, output_path, burn_captions=...): raised with the
\* message of the exception, or returned, with the segments concatenated,
\* the log of the external invocations and what became of the output
render(p, burn_captions, voice_duration, env) ==
    IF p.scenes = <<>>
    THEN [NoRender EXCEPT !.raised = TRUE, !.message = "No scenes to render"]
    ELSE LET a == ExtractLoop(p.scenes, env.extract, 1, NoRender)
         IN IF a.raised THEN [a EXCEPT !.message = "timed out"]
            ELSE IF a.segment_paths = <<>>
            THEN [a EXCEPT !.raised = TRUE,
                    !.message = "No segments were rendered successfully"]
            ELSE LET b == FinalOutput(p, burn_captions, env, a)
                 IN IF b.raised THEN b
                    ELSE MixVoiceover(p, voice_duration, env, b)

\* the outcomes the external invocations of one render can have, drawn
\* stage by stage; a stage the render does not reach has the one outcome
\* "ok"
StagesNotRun ==
    [overlay |-> "ok", concat |-> <<"ok", "ok">>, compose |-> <<"ok", "ok">>,
     extend |-> <<"ok", "ok">>, mix |-> "ok"]

ExtractEnvs(p) == [extract : [1..Len(p.scenes) -> Attempts]]

FinalEnvs(p, burn_captions, ex) ==
    LET a == ExtractLoop(p.scenes, ex.extract, 1, NoRender)
        captions == burn_captions /\ CaptionWords(p) # <<>>
    IN IF p.scenes = <<>> \/ a.raised \/ a.segment_paths = <<>>
       THEN {[k \in {"overlay", "concat", "compose"} |-> StagesNotRun[k]]}
       ELSE [overlay : IF captions THEN Outcomes ELSE {"ok"},
             concat : Attempts,
             compose : IF captions THEN Attempts ELSE {<<"ok", "ok">>}]

MixEnvs(p, burn_captions, ex, fo) ==
    LET a == ExtractLoop(p.scenes, ex.extract, 1, NoRender)
        b == FinalOutput(p, burn_captions, fo, a)
    IN IF p.scenes = <<>> \/ a.raised \/ a.segment_paths = <<>>
          \/ b.raised \/ ~b.output \/ p.voiceover_path = ""
       THEN {[k \in {"extend", "mix"} |-> StagesNotRun[k]]}
       ELSE [extend : Attempts, mix : Outcomes]

\* A render endpoint that does not look at the status.
Mutant_render_project_NoStatusCheck(captions) ==
    /\ project' = [project EXCEPT !.status = "rendering"]
    /\ last' = Response("render", "", 200, "rendering", 0, 0, 0)
    /\ hist' = [hist EXCEPT !.burn_captions = captions,
                            !.render = NoRender,
                            !.tasks = Append(@, captions)]

\* POST /project/{id}/render; hist.render is the record of the render the
\* latest request started, hist.renders the renders that have finished,
\* hist.tasks the background tasks added and not yet run, each with the
\* burn_captions its closure holds
render_project(captions) ==
    IF project.status = "rendering"
    THEN /\ project' = project
         /\ last' = Response("render", "", 409, "Already rendering", 0, 0, 0)
         /\ hist' = hist
    ELSE /\ project' = [project EXCEPT !.status = "rendering"]
         /\ last' = Response("render", "", 200, "rendering", 0, 0, 0)
         /\ hist' = [hist EXCEPT !.burn_captions = captions,
                                 !.render = NoRender,
                                 !.tasks = Append(@, captions)]

\* A background task that records a failure without setting the status.
Mutant_do_render_KeepsRendering ==
    /\ hist.tasks # <<>>
    /\ \E ex \in ExtractEnvs(project) :
         \E fo \in FinalEnvs(project, Head(hist.tasks), ex) :
           \E mv \in MixEnvs(project, Head(hist.tasks), ex, fo) :
             \E r \in {render(project, Head(hist.tasks),
                              hist.voice_duration, ex @@ fo @@ mv)} :
                /\ project' = IF r.raised
                              THEN [project EXCEPT !.error = r.message]
                              ELSE [project EXCEPT !.status = "done"]
                /\ hist' = [hist EXCEPT !.render = r, !.renders = @ + 1,
                                        !.tasks = Tail(@)]
    /\ last' = last

\* the background task do_render (r, the outcome of render, is computed
\* once)
do_render ==
    /\ hist.tasks # <<>>
    /\ \E ex \in ExtractEnvs(project) :
         \E fo \in FinalEnvs(project, Head(hist.tasks), ex) :
           \E mv \in MixEnvs(project, Head(hist.tasks), ex, fo) :
             \E r \in {render(project, Head(hist.tasks),
                              hist.voice_duration, ex @@ fo @@ mv)} :
                /\ project' = IF r.raised
                              THEN [project EXCEPT !.status = "error",
                                                   !.error = r.message]
                              ELSE [project EXCEPT !.status = "done"]
                /\ hist' = [hist EXCEPT !.render = r, !.renders = @ + 1,
                                        !.tasks = Tail(@)]
    /\ last' = last

(***************************************************************************)
(* SpecRender: up to MaxRenders render requests, each followed by its      *)
(* background task, on a timeline of up to MaxRenderScenes scenes, with    *)
(* or without a narration, the external invocations ending in every way.   *)
(***************************************************************************)
RenderProjects ==
    {NewProject(SubSeq(UnitScenes, 1, n), 1920, 1080)
        @@ [voiceover_path |-> vo] :
        n \in 0..MaxRenderScenes, vo \in {"", "voiceover.wav"}}

\* the narration lasts 7.0, 7.3 or 8.0 s
VoiceDurations == {700, 730, 800}

InitRender ==
    /\ project \in RenderProjects
    /\ last = Response("init", "", 200, "", 0, 0, 0)
    /\ \E n \in (IF project.voiceover_path = "" THEN {0}
                  ELSE VoiceDurations) :
         hist = [voice_duration |-> n, burn_captions |-> FALSE,
                 render |-> NoRender, renders |-> 0, tasks |-> <<>>]
    /\ nops = 0

RenderRequestStep ==
    /\ nops < MaxRenders
    /\ nops' = nops + 1
    /\ \E captions \in BOOLEAN : render_project(captions)

DoRenderStep == do_render /\ nops' = nops

NextRender == RenderRequestStep \/ DoRenderStep

SpecRender == InitRender /\ [][NextRender]_vars

\* the render started by the latest request has finished
Rendered == hist.renders > 0 /\ project.status \in {"done", "error"}

\* the entries the per-scene extractions left in the log of the render
ExtractionLog == SelectSeq(hist.render.log, LAMBDA x : x.stage = "extract")

\* the positions of the scenes whose extraction ended with exit status
\* zero, in timeline order
RECURSIVE ExtractedScenes(_, _)
ExtractedScenes(ex, k) ==
    IF k > Len(ex) THEN <<>>
    ELSE (IF Succeeded(ex[k].runs) THEN <<ex[k].scene>> ELSE <<>>)
           \o ExtractedScenes(ex, k + 1)

\* C21: in a finished render of a non-empty timeline every scene was
\* extracted; an extraction that did not succeed on the primary encoder was
\* run once more, on the software encoder, and only then; the segments
\* concatenated are those of the scenes whose extraction succeeded, in
\* timeline order; and a render that ended during the extractions produced
\* no segment at all.
C21_ExtractionRetriedThenDropped ==
    Rendered /\ project.scenes # <<>> =>
        LET r == hist.render
            ex == ExtractionLog
        IN /\ Len(ex) = Len(project.scenes)
           /\ \A k \in 1..Len(ex) :
                 Len(ex[k].runs) = IF ex[k].runs[1] = "ok" THEN 1 ELSE 2
           /\ r.segment_paths = ExtractedScenes(ex, 1)
           /\ (r.raised /\ Len(r.log) = Len(ex) => r.segment_paths = <<>>)

\* C22: in a finished render in which an extraction timed out, the
\* extraction that timed out on the primary encoder was retried on the
\* software encoder, every scene was extracted, the segments concatenated
\* are those of the scenes whose extraction succeeded, and the render did
\* not end with the timeout as its error.
C22_ExtractionTimeoutIsStageFailure ==
    Rendered /\ (\E k \in 1..Len(ExtractionLog) :
                    \E j \in 1..Len(ExtractionLog[k].runs) :
                       ExtractionLog[k].runs[j] = "timeout") =>
        /\ \A k \in 1..Len(ExtractionLog) :
              ExtractionLog[k].runs[1] = "timeout"
                 => Len(ExtractionLog[k].runs) = 2
        /\ Len(ExtractionLog) = Len(project.scenes)
        /\ hist.render.segment_paths = ExtractedScenes(ExtractionLog, 1)
        /\ ~(project.status = "error" /\ project.error = "timed out")

\* C23: a finished render in which the concatenation, the caption
\* compositing or the narration mix did not succeed, on the primary attempt
\* or on the fallback attempt that followed it, has status error with a
\* message, and so has not status done.
C23_StageFailureAborts ==
    Rendered /\ (\E k \in 1..Len(hist.render.log) :
                    /\ hist.render.log[k].stage \in {"concat", "compose", "mix"}
                    /\ ~Succeeded(hist.render.log[k].runs)) =>
        project.status = "error" /\ project.error # ""

(***************************************************************************)
(* SpecNarration: the narration step of render applied once to a picture   *)
(* of duration V and a narration of duration N, both as _probe_duration    *)
(* returns them (0 when the probe fails), the extension command ending in  *)
(* every way.                                                              *)
(***************************************************************************)
\* the longest narration, in centiseconds
MaxNarration == 1300

\* the picture lasts 0.1 s, 0.2 s or 10 s, or its probe fails
PictureDurations == {0, 10, 20, 1000}

NoPlan ==
    [raised |-> FALSE, runs |-> <<>>, extended |-> FALSE,
     target_duration |-> 0, chain |-> <<>>]

InitNarration ==
    /\ project = NewProject(<<>>, 1920, 1080)
    /\ last = Response("init", "", 200, "", 0, 0, 0)
    /\ \E V \in PictureDurations, N \in 0..MaxNarration,
          ext \in Attempts, ext_probe_ok \in BOOLEAN :
         hist = [video_probe |-> V, voice_duration |-> N, ext |-> ext,
                 ext_probe_ok |-> ext_probe_ok, plan |-> NoPlan]
    /\ nops = 0

NarrationStep ==
    /\ nops = 0
    /\ nops' = 1
    /\ hist' = [hist EXCEPT !.plan = voiceover_plan(hist.video_probe,
                                         hist.voice_duration, hist.ext,
                                         hist.ext_probe_ok)]
    /\ UNCHANGED <<project, last>>

NextNarration == NarrationStep

SpecNarration == InitNarration /\ [][NextNarration]_vars

\* the narration step has run, on a picture whose duration was probed, with
\* an extension command that succeeds, on the primary or on the software
\* encoder, and writes a file whose duration can be probed
PlannedOnGoodRun ==
    /\ nops = 1
    /\ hist.video_probe > 0
    /\ Succeeded(Invocations(hist.ext))
    /\ hist.ext_probe_ok

FinalPicture ==
    LET V == Max(hist.video_probe, 1)
        N == hist.voice_duration
    IN IF /\ N * 100 > max_speedup * V /\ N - V > 3
          /\ Succeeded(Invocations(hist.ext)) /\ hist.ext_probe_ok
       THEN N ELSE V

\* C25: with ratio' = N / V', the narration's chain is the one step 1.08
\* when ratio' > 1.08, the one step 0.92 when ratio' < 0.92, the one step
\* ratio' (to the four decimals a step is written with) when ratio' differs
\* from 1 by more than 1.5 %, and empty otherwise; every step applied lies
\* in [0.92, 1.08], whether or not the extension succeeded.
C25_StretchFactorBounded ==
    nops = 1 /\ ~hist.plan.raised =>
        LET N == hist.voice_duration
            V1 == FinalPicture
            chain == hist.plan.chain
        IN /\ hist.plan.target_duration = V1
           /\ IF N * 100 > max_speedup * V1 THEN chain = <<10800>>
              ELSE IF N * 100 < min_slowdown * V1 THEN chain = <<9200>>
              ELSE IF Abs(N - V1) * 1000 > 15 * V1
              THEN /\ Len(chain) = 1
                   /\ 2 * Abs(chain[1] * V1 - 10000 * N) <= V1
              ELSE chain = <<>>
           /\ \A k \in 1..Len(chain) : chain[k] >= 9200 /\ chain[k] <= 10800

\* C25 witness: the extension failed on both encoders and the narration is
\* stretched by 1.08; N = 12 s, V = 10 s
C25_Witness ==
    /\ nops = 1
    /\ hist.voice_duration = 1200 /\ hist.video_probe = 1000
    /\ hist.plan.runs = <<"fail", "fail">>
    /\ hist.plan.chain = <<10800>>

(***************************************************************************)
(* SpecAtempo: _build_atempo_chain applied once to a speed of              *)
(* [SPEED_MIN, SPEED_MAX], the speeds taken in steps of 1/300 (every       *)
(* hundredth and the thirds between); where the speed is a whole number of *)
(* hundredths, the audio filters of the scene's extraction command are     *)
(* taken too.                                                              *)
(***************************************************************************)
\* the denominator of the speeds
SpeedGrain == 300

InitAtempo ==
    /\ project = NewProject(<<>>, 1920, 1080)
    /\ last = Response("init", "", 200, "", 0, 0, 0)
    /\ \E n \in ((SPEED_MIN * SpeedGrain) \div 100)
                  ..((SPEED_MAX * SpeedGrain) \div 100) :
         hist = [n |-> n, d |-> SpeedGrain, chain |-> <<>>, afilters |-> <<>>]
    /\ nops = 0

AtempoStep ==
    /\ nops = 0
    /\ nops' = 1
    /\ hist' = [hist EXCEPT
                  !.chain = _build_atempo_chain(hist.n, hist.d),
                  !.afilters =
                      IF (hist.n * 100) % hist.d = 0
                      THEN _extract_segment(
                               [Scene("a", 0, 1000) EXCEPT
                                   !.speed = (hist.n * 100) \div hist.d],
                               <<"ok", "ok">>).afilters
                      ELSE _build_atempo_chain(hist.n, hist.d)]
    /\ UNCHANGED <<project, last>>

NextAtempo == AtempoStep

SpecAtempo == InitAtempo /\ [][NextAtempo]_vars

RECURSIVE GCD(_, _)
GCD(x, y) == IF y = 0 THEN x ELSE GCD(y, x % y)

\* the product of the steps of a chain, as the fraction num / den, each
\* step (in ten-thousandths) taken in lowest terms
RECURSIVE StepProduct(_)
StepProduct(chain) ==
    IF chain = <<>> THEN [num |-> 1, den |-> 1]
    ELSE LET g == GCD(Head(chain), 10000)
             rest == StepProduct(Tail(chain))
         IN [num |-> (Head(chain) \div g) * rest.num,
             den |-> (10000 \div g) * rest.den]

\* C26: for a speed n/d of [0.25, 4.0] the chain has at most two steps (the
\* loops end after at most one round), each step lies in [0.5, 2.0], and
\* the product of the steps is the speed to the four decimals a step is
\* written with, or, where no residual step was written, within 1 % of the
\* speed; the extraction command carries the same chain; speed 3.0 gives
\* the two steps 2.0, 1.5.
C26_AtempoChainInBand ==
    nops = 1 =>
        LET chain == hist.chain
            P == StepProduct(chain)
            diff == Abs(P.num * hist.d - hist.n * P.den)
        IN /\ Len(chain) <= 2
           /\ \A k \in 1..Len(chain) : chain[k] >= 5000 /\ chain[k] <= 20000
           /\ \/ diff <= (hist.d * P.den) \div 10000
              \/ /\ diff * 100 <= P.num * hist.d
                 /\ \A k \in 1..Len(chain) : chain[k] \in {5000, 20000}
           /\ hist.afilters = chain
           /\ (hist.n = 3 * hist.d => chain = <<20000, 15000>>)

\* C26 witness: speed 3.0 and its two steps
C26_Witness ==
    /\ nops = 1
    /\ hist.n = 3 * hist.d
    /\ hist.chain = <<20000, 15000>>

(***************************************************************************)
(* Preview sampler (backend/render/ffmpeg.py, render_preview_frames, and   *)
(* GET /project/{id}/preview).  Effective durations are kept in quarters   *)
(* of a centisecond, which is exact for the speeds 0.25, 0.5, 1.0, 2.0 and *)
(* 4.0 of the model; a source time is the fraction num / den of a          *)
(* centisecond.  Every frame extraction is taken to write its file.        *)
(***************************************************************************)
\* the edits made before a preview, at most
MaxPreviewEdits == 2
\* the largest count asked of the sampler
MaxCount == 5

\* Scene.duration, in quarters of a centisecond
duration4(s) == (raw_duration(s) * 400) \div s.speed

\* sum(s.duration for s in scenes[:n])
RECURSIVE SumDuration4(_, _)
SumDuration4(scenes, n) ==
    IF n = 0 THEN 0
    ELSE SumDuration4(scenes, n - 1) + duration4(scenes[n])

\* A sampler that maps the offset into the scene without its speed.
Mutant_Frame_IgnoresSpeed(scene, i, frame_idx, total, c, accumulated) ==
    [frame_idx |-> frame_idx, scene |-> i,
     num |-> scene.start * 400 * c
               + (frame_idx * total - accumulated * c) * 100,
     den |-> 400 * c]

\* A sampler that takes every frame at the start of its scene.
Mutant_Frame_SceneStart(scene, i, frame_idx, total, c, accumulated) ==
    [frame_idx |-> frame_idx, scene |-> i,
     num |-> scene.start * 400 * c, den |-> 400 * c]

\* the frame with index frame_idx, taken in the scene at position i:
\* target_time = frame_idx * interval, offset_in_scene = target_time -
\* accumulated, source_time = scene.start + offset_in_scene * scene.speed
Frame(scene, i, frame_idx, total, c, accumulated) ==
    [frame_idx |-> frame_idx, scene |-> i,
     num |-> scene.start * 400 * c
               + (frame_idx * total - accumulated * c) * scene.speed,
     den |-> 400 * c]

\* the two loops of render_preview_frames, from the scene at position i and
\* the frame frame_idx on; total is total_duration, c is max(count, 1), so
\* that interval = total / c
RECURSIVE PreviewLoop(_, _, _, _, _, _, _)
PreviewLoop(scenes, count, total, c, i, accumulated, frames) ==
    IF i > Len(scenes) THEN frames
    ELSE LET scene_end == accumulated + duration4(scenes[i])
             frame_idx == Len(frames)
         IN IF frame_idx < count /\ frame_idx * total < scene_end * c
            THEN PreviewLoop(scenes, count, total, c, i, accumulated,
                             Append(frames,
                                    Frame(scenes[i], i, frame_idx, total, c,
                                          accumulated)))
            ELSE PreviewLoop(scenes, count, total, c, i + 1, scene_end,
                             frames)

\* render_preview_frames(project, output_dir, count): the frames, each with
\* the source time it was taken at
render_preview_frames(p, count) ==
    LET total_duration == SumDuration4(p.scenes, Len(p.scenes))
    IN IF total_duration = 0 THEN <<>>
       ELSE PreviewLoop(p.scenes, count, total_duration, Max(count, 1),
                        1, 0, <<>>)

\* GET /project/{id}/preview?count=...; hist.frames holds the frames of the
\* latest preview
get_preview_frames(count) ==
    \E frames \in {render_preview_frames(project, count)} :
       /\ last' = Response("preview", "", 200, "ok", Len(frames), count, 0)
       /\ hist' = [before |-> hist.before, frames |-> frames]
       /\ project' = project

(***************************************************************************)
(* SpecPreview: up to MaxPreviewEdits edits (reorder, speed, split, trim,  *)
(* delete, merge) on one to three analysed scenes or on an empty timeline, *)
(* and previews of -1 to MaxCount frames at any point.                     *)
(***************************************************************************)
PreviewProjects == UnitProjects \cup {NewProject(<<>>, 1920, 1080)}

PreviewKinds == {"reorder", "speed", "split", "trim", "delete", "merge"}

PreviewParams(kind) ==
    CASE kind = "reorder" -> {[new_index |-> Num(0)]}
      [] kind = "speed" -> {[speed |-> Num(v)] : v \in {10, 800}}
      [] kind = "split" -> {[split_at |-> Num(100)]}
      [] kind = "trim" -> {[trim_start |-> Num(350), trim_end |-> Num(0)]}
      [] OTHER -> {NoParams}

InitPreview ==
    /\ project \in PreviewProjects
    /\ last = Response("init", "", 200, "", 0, 0, 0)
    /\ hist = [before |-> project]
    /\ nops = 0

PreviewEditStep ==
    /\ nops < MaxPreviewEdits
    /\ nops' = nops + 1
    /\ \E kind \in PreviewKinds :
         \E target \in SceneIds(project) :
           \E params \in PreviewParams(kind) :
             edit_project(kind, target, params)

PreviewStep ==
    /\ \E count \in -1..MaxCount : get_preview_frames(count)
    /\ nops' = nops

NextPreview == PreviewEditStep \/ PreviewStep

SpecPreview == InitPreview /\ [][NextPreview]_vars

\* C27: after a preview of count >= 1 frames of a timeline of positive
\* total effective duration there are exactly count frames; the k-th
\* (k = 0..count-1) is taken at the instant k * total / count, in a scene
\* whose effective-time span [accumulated, accumulated + duration) holds
\* that instant, at the source time start + (instant - accumulated) * speed,
\* which lies in [start, end) of that scene.  A preview of an empty
\* timeline has no frames.
C27_PreviewSamples ==
    last.op = "preview" =>
        LET scenes == project.scenes
            count == last.a
            total == SumDuration4(scenes, Len(scenes))
            frames == hist.frames
        IN /\ (scenes = <<>> => frames = <<>>)
           /\ count >= 1 /\ total > 0 =>
                /\ Len(frames) = count
                /\ \A k \in 0..(count - 1) :
                      LET f == frames[k + 1]
                          s == scenes[f.scene]
                          accumulated == SumDuration4(scenes, f.scene - 1)
                      IN /\ f.frame_idx = k
                         /\ accumulated * count <= k * total
                         /\ k * total < (accumulated + duration4(s)) * count
                         /\ f.den = 400 * count
                         /\ f.num = s.start * f.den
                                      + (k * total - accumulated * count)
                                          * s.speed
                         /\ s.start * f.den <= f.num
                         /\ f.num < s.end * f.den

\* C27 witness: a preview of five frames of scenes of effective durations
\* 4 s then 6 s (b slowed down to 0.5), the third frame, at 4.0 s, being
\* the first of the second scene
C27_Witness ==
    /\ last.op = "preview" /\ last.a = 5
    /\ Len(project.scenes) = 2
    /\ duration4(project.scenes[1]) = 1600
    /\ duration4(project.scenes[2]) = 2400
    /\ Len(hist.frames) = 5
    /\ hist.frames[3].scene = 2
    /\ hist.frames[3].num = project.scenes[2].start * hist.frames[3].den

\* the latest request was a preview of count >= 1 frames of a timeline of
\* positive total effective duration
Previewed ==
    /\ last.op = "preview"
    /\ last.a >= 1
    /\ SumDuration4(project.scenes, Len(project.scenes)) > 0

\* the scenes lie in the timeline as they lie in the source: each ends
\* before the later ones start
InSourceOrder(scenes) ==
    \A i \in 1..Len(scenes) : \A j \in (i + 1)..Len(scenes) :
        scenes[i].end <= scenes[j].start

\* C28 (as stated): the source times of the frames of a preview never
\* decrease from one frame to the next, whatever edits led to the timeline.
C28_SourceTimesMonotonic ==
    Previewed =>
        \A k \in 1..(Len(hist.frames) - 1) :
            hist.frames[k].num <= hist.frames[k + 1].num

\* C28 (amended): the frames of a preview follow the timeline (the scene of
\* a frame is never before the scene of the frame before it); the source
\* times of frames taken in the same scene increase strictly; and the
\* source times of all frames increase strictly when the scenes lie in the
\* timeline as they lie in the source.
C28_SourceTimesMonotonicInSourceOrder ==
    Previewed =>
        LET frames == hist.frames
        IN /\ \A k \in 1..(Len(frames) - 1) :
                 /\ frames[k].scene <= frames[k + 1].scene
                 /\ frames[k].scene = frames[k + 1].scene
                      => frames[k].num < frames[k + 1].num
           /\ InSourceOrder(project.scenes) =>
                 \A k \in 1..(Len(frames) - 1) :
                     frames[k].num < frames[k + 1].num

\* C28 witness: a preview of a timeline that a reorder edit took out of
\* source order and a speed edit changed, with a frame whose source time is
\* before that of the frame preceding it
C28_Witness ==
    /\ Previewed
    /\ ~InSourceOrder(project.scenes)
    /\ \E i \in 1..Len(project.scenes) :
          project.scenes[i].speed # DEFAULT_SPEED
    /\ \E k \in 1..(Len(hist.frames) - 1) :
          /\ hist.frames[k].scene < hist.frames[k + 1].scene
          /\ hist.frames[k].num > hist.frames[k + 1].num
    /\ \E k \in 1..(Len(hist.frames) - 1) :
          /\ hist.frames[k].scene = hist.frames[k + 1].scene
          /\ hist.frames[k].num < hist.frames[k + 1].num

(***************************************************************************)
(* Caption chunks (backend/render/captions.py).                            *)
(***************************************************************************)
\* the words of a captioned timeline, at most
MaxWords == 4

\* the style presets, with the fields that bear on the chunks
STYLES ==
    [hormozi |-> [words_per_group |-> 2, uppercase |-> TRUE],
     bold |-> [words_per_group |-> 2, uppercase |-> TRUE],
     minimal |-> [words_per_group |-> 3, uppercase |-> FALSE],
     default |-> [words_per_group |-> 2, uppercase |-> TRUE]]

\* STYLES.get(style, STYLES["default"])
StyleGet(style) ==
    IF style \in DOMAIN STYLES THEN STYLES[style] ELSE STYLES["default"]

\* text.endswith(('.', '!', '?')), for a stripped text of the model
EndsSentence(text) == text \in {"world.", "wait!", "why?"}

\* the loop of _group_words from the k-th word on
RECURSIVE GroupLoop(_, _, _, _, _)
GroupLoop(words, max_per_group, k, groups, current) ==
    IF k > Len(words)
    THEN IF current # <<>> THEN Append(groups, current) ELSE groups
    ELSE LET cur == Append(current, words[k])
         IN IF Len(cur) >= max_per_group \/ EndsSentence(Strip(words[k].word))
            THEN GroupLoop(words, max_per_group, k + 1,
                           Append(groups, cur), <<>>)
            ELSE GroupLoop(words, max_per_group, k + 1, groups, cur)

_group_words(words, max_per_group) ==
    GroupLoop(words, max_per_group, 1, <<>>, <<>>)

\* render_caption_overlay up to "groups = _group_words(...)": the chunks
\* shown for the style requested
caption_groups(p, style) ==
    _group_words(CaptionWords(p), StyleGet(style).words_per_group)

(***************************************************************************)
(* SpecCaptions: the chunks of a render with captions, for a timeline of   *)
(* one scene with up to MaxWords words and every style name a request can  *)
(* carry (the four presets and a name that is none).                       *)
(***************************************************************************)
CaptionTexts == {"hello", "now", "world.", "wait!", "why?", " "}

CaptionStyles == DOMAIN STYLES \cup {"neon"}

\* the scene whose k-th word is texts[k], spoken from 0.5 k s for 0.4 s
CaptionProject(texts) ==
    NewProject(<<FillerScene([k \in 1..Len(texts) |->
                     TranscriptWord(texts[k], 50 * k, 50 * k + 40, 90,
                                    FALSE)])>>,
               1920, 1080)

InitCaptions ==
    /\ \E n \in 0..MaxWords : \E texts \in [1..n -> CaptionTexts] :
         project = CaptionProject(texts)
    /\ last = Response("init", "", 200, "", 0, 0, 0)
    /\ hist = [style |-> "", groups |-> <<>>]
    /\ nops = 0

CaptionStep ==
    /\ nops = 0
    /\ nops' = 1
    /\ \E style \in CaptionStyles :
         hist' = [style |-> style, groups |-> caption_groups(project, style)]
    /\ UNCHANGED <<project, last>>

NextCaptions == CaptionStep

SpecCaptions == InitCaptions /\ [][NextCaptions]_vars

\* the words of the chunks, chunk after chunk
RECURSIVE Flatten(_)
Flatten(groups) ==
    IF groups = <<>> THEN <<>> ELSE Head(groups) \o Flatten(Tail(groups))

\* C29: for every style requested the chunks hold one or two words each; a
\* chunk of one word that is not the last chunk ends with a sentence
\* terminator, and a word that ends with one closes its chunk; the chunks,
\* one after the other, are the caption words in their order, each once.
C29_ChunksOfAtMostTwo ==
    nops = 1 =>
        LET groups == hist.groups
        IN /\ \A g \in 1..Len(groups) :
                 /\ Len(groups[g]) \in 1..2
                 /\ Len(groups[g]) = 1 /\ g < Len(groups)
                      => EndsSentence(Strip(groups[g][1].word))
                 /\ \A k \in 1..(Len(groups[g]) - 1) :
                       ~EndsSentence(Strip(groups[g][k].word))
           /\ Flatten(groups) = CaptionWords(project)

(***************************************************************************)
(* The plan scorer (backend/agent/scorer.py).  Weights are kept in tenths, *)
(* so that a weight of 7.5 is 75; the weighted total is the fraction       *)
(* num / (100 * WeightUnit).                                               *)
(***************************************************************************)
\* the keys a weights file overrides, at most
MaxOverrides == 1

\* the denominator of the weights
WeightUnit == 10

FeatureNames ==
    {"hook_strength", "time_to_value", "pacing_density",
     "rewatch_loop_design", "caption_readability", "audio_strategy_fit",
     "cta_quality", "metadata_relevance", "originality_authenticity",
     "technical_quality", "safety_compliance"}

\* _DEFAULT_WEIGHTS["pqs"]
_DEFAULT_WEIGHTS ==
    [hook_strength |-> 20 * WeightUnit,
     time_to_value |-> 12 * WeightUnit,
     pacing_density |-> 10 * WeightUnit,
     rewatch_loop_design |-> 8 * WeightUnit,
     caption_readability |-> 8 * WeightUnit,
     audio_strategy_fit |-> 7 * WeightUnit,
     cta_quality |-> 6 * WeightUnit,
     metadata_relevance |-> 7 * WeightUnit,
     originality_authenticity |-> 10 * WeightUnit,
     technical_quality |-> 7 * WeightUnit,
     safety_compliance |-> 5 * WeightUnit]

\* _load_weights()["pqs"] for the weights file cfg: the defaults when the
\* file is missing or does not parse, else the defaults overridden by the
\* file's "pqs" entries
_load_weights(cfg) ==
    IF cfg.kind # "ok" THEN _DEFAULT_WEIGHTS
    ELSE [k \in FeatureNames |->
            IF k \in DOMAIN cfg.pqs THEN cfg.pqs[k] ELSE _DEFAULT_WEIGHTS[k]]

\* round(n / d) for d > 0: to the nearest integer, a tie to the even one
Round(n, d) ==
    LET q == n \div d
        r == n % d
    IN IF 2 * r < d THEN q
       ELSE IF 2 * r > d THEN q + 1
       ELSE IF q % 2 = 0 THEN q ELSE q + 1

Max2(x, y) == IF x >= y THEN x ELSE y

Min2(x, y) == IF x <= y THEN x ELSE y

\* _bounded without the clamp
Mutant_bounded_NoClamp(n, d) == Round(n, d)

\* _bounded(n / d)
_bounded(n, d) == Max2(0, Min2(100, Round(n, d)))

\* any(ch.isdigit() for ch in text), for the hook texts of the model
HasDigit(text) ==
    CASE text = "Watch this first" -> FALSE
      [] text = "Top 5" -> TRUE
      [] text = "This one tweak can double watch-time" -> FALSE
      [] text = "POV: You fix your reel in 20 seconds" -> TRUE
      [] text = "Stop scrolling - watch this before your next post" -> FALSE
      [] text = "3 mistakes killing your engagement (fix this now)" -> TRUE
      [] text = "If your reel retention drops, do this first" -> FALSE
      [] text = "The 20-second edit loop top creators repeat" -> TRUE
      [] text = "You're one hook away from a better reel" -> FALSE

\* cta.lower(), for the calls to action of the model
Lower(cta) ==
    CASE cta = "Save this and try it on your next edit"
           -> "save this and try it on your next edit"
      [] cta = "Save this checklist before your next post"
           -> "save this checklist before your next post"
      [] cta = "FOLLOW FOR PART 2" -> "follow for part 2"
      [] cta = "Link in bio" -> "link in bio"
      [] cta = "Test this today and compare watch-time"
           -> "test this today and compare watch-time"
      [] cta = "Comment 'template' and I'll send the structure"
           -> "comment 'template' and i'll send the structure"
      [] cta = "Follow for part 2 with live examples"
           -> "follow for part 2 with live examples"

\* the words the scorer looks for that occur in a lowered call to action
Occurring(lowered) ==
    CASE lowered = "save this and try it on your next edit" -> {"save"}
      [] lowered = "save this checklist before your next post"
           -> {"save", "checklist"}
      [] lowered = "follow for part 2" -> {"follow", "part 2"}
      [] lowered = "link in bio" -> {}
      [] lowered = "test this today and compare watch-time" -> {"test"}
      [] lowered = "comment 'template' and i'll send the structure"
           -> {"comment"}
      [] lowered = "follow for part 2 with live examples"
           -> {"follow", "part 2"}

RECURSIVE WeightedSum(_, _, _)
WeightedSum(features, weights, keys) ==
    IF keys = {} THEN 0
    ELSE LET k == CHOOSE x \in keys : TRUE
         IN features[k] * weights[k]
              + WeightedSum(features, weights, keys \ {k})

\* the notes of score_reel_plan
ScoreNotes(plan) ==
    (IF plan.duration_target_sec > 35
     THEN <<"Longer than typical viral short-form range; tighten to <=30s when possible.">>
     ELSE <<>>)
    \o (IF plan.captions.words_per_line > 5
        THEN <<"Caption lines may feel dense on mobile.">>
        ELSE <<>>)
    \o (IF Occurring(Lower(plan.cta)) \cap {"save", "comment"} = {}
        THEN <<"CTA may be weak for engagement actions.">>
        ELSE <<>>)

\* the features of score_reel_plan; hook durations are in centiseconds
Features(plan) ==
    LET base == IF Len(plan.hook.text) >= 20 THEN 85 ELSE 70
        found == Occurring(Lower(plan.cta))
    IN [hook_strength |->
            IF HasDigit(plan.hook.text) THEN Min2(95, base + 4) ELSE base,
        time_to_value |->
            IF plan.hook.duration_sec <= 200 THEN 95
            ELSE IF plan.hook.duration_sec <= 300 THEN 80 ELSE 65,
        pacing_density |-> IF plan.cuts.target_pace = "fast" THEN 88 ELSE 76,
        rewatch_loop_design |->
            IF "part 2" \in found \/ "checklist" \in found THEN 80 ELSE 68,
        caption_readability |->
            IF plan.captions.words_per_line <= 4 THEN 86 ELSE 74,
        audio_strategy_fit |-> 78,
        cta_quality |->
            IF found \cap {"save", "comment", "follow", "test"} # {}
            THEN 84 ELSE 70,
        metadata_relevance |-> 80,
        originality_authenticity |-> 82,
        technical_quality |-> 82,
        safety_compliance |-> 95]

\* sum(features[k] * (weights[k] / 100)), as the numerator over
\* 100 * WeightUnit
weighted_total(plan, cfg) ==
    WeightedSum(Features(plan), _load_weights(cfg), FeatureNames)

\* score_reel_plan(plan) under the weights file cfg
score_reel_plan(plan, cfg) ==
    LET features == Features(plan)
    IN [total |-> _bounded(weighted_total(plan, cfg), 100 * WeightUnit),
        hook_strength |-> features.hook_strength,
        pacing |-> features.pacing_density,
        caption_clarity |-> features.caption_readability,
        cta_strength |-> features.cta_quality,
        notes |-> ScoreNotes(plan)]

(***************************************************************************)
(* SpecScorer: score_reel_plan applied once to a plan, under a weights     *)
(* file that is missing, unreadable, or overrides up to MaxOverrides of    *)
(* the weights with a negative, a fractional or a large value.             *)
(***************************************************************************)
HookTexts ==
    {"Watch this first", "Top 5", "This one tweak can double watch-time",
     "POV: You fix your reel in 20 seconds"}

HookDurations == {200, 250, 350}

Paces == {"fast", "medium"}

WordsPerLine == {4, 6}

Ctas ==
    {"Save this and try it on your next edit",
     "Save this checklist before your next post", "FOLLOW FOR PART 2",
     "Link in bio", "Test this today and compare watch-time"}

DurationTargets == {20, 40}

\* -100, 0, 7.5 and 1000, in tenths
WeightValues == {-100 * WeightUnit, 0, 75, 1000 * WeightUnit}

ReelPlans ==
    {[hook |-> [text |-> t, duration_sec |-> ds],
      captions |-> [words_per_line |-> wpl],
      cuts |-> [target_pace |-> pace],
      cta |-> cta,
      duration_target_sec |-> dt] :
        t \in HookTexts, ds \in HookDurations, wpl \in WordsPerLine,
        pace \in Paces, cta \in Ctas, dt \in DurationTargets}

WeightFiles ==
    {[kind |-> "missing", pqs |-> <<>>], [kind |-> "invalid", pqs |-> <<>>]}
    \cup {[kind |-> "ok", pqs |-> pqs] :
            pqs \in UNION {[K -> WeightValues] :
                             K \in {S \in SUBSET FeatureNames :
                                      Cardinality(S) <= MaxOverrides}}}

NoScore ==
    [total |-> 0, hook_strength |-> 0, pacing |-> 0, caption_clarity |-> 0,
     cta_strength |-> 0, notes |-> <<>>]

InitScorer ==
    /\ project = NewProject(<<>>, 1920, 1080)
    /\ last = Response("init", "", 200, "", 0, 0, 0)
    /\ \E cfg \in WeightFiles, plan \in ReelPlans :
         hist = [cfg |-> cfg, plan |-> plan, score |-> NoScore]
    /\ nops = 0

ScoreStep ==
    /\ nops = 0
    /\ nops' = 1
    /\ hist' = [hist EXCEPT !.score = score_reel_plan(hist.plan, hist.cfg)]
    /\ UNCHANGED <<project, last>>

NextScorer == ScoreStep

SpecScorer == InitScorer /\ [][NextScorer]_vars

Platforms == {"reels", "tiktok", "shorts"}

\* AgentReelRequest: the constraints pydantic checks before the handler runs
ValidRequest(req) ==
    /\ req.platform \in Platforms
    /\ req.duration_target_sec >= 8 /\ req.duration_target_sec <= 60
    /\ req.candidates >= 1 /\ req.candidates <= 5

_base_hook(platform) ==
    CASE platform = "reels"
           -> "Stop scrolling - watch this before your next post"
      [] platform = "tiktok" -> "POV: You fix your reel in 20 seconds"
      [] platform = "shorts" -> "This one tweak can double watch-time"
      [] OTHER -> "Watch this first"

\* max(4, min(10, duration_target_sec // 3))
scene_count_target(req) == Max2(4, Min2(10, req.duration_target_sec \div 3))

\* the ReelPlan the planner builds for a request; hook durations are in
\* centiseconds
ReelPlan(req, id, hook, duration_sec, wpl, pace, cta) ==
    [id |-> id, template |-> req.template, platform |-> req.platform,
     objective |-> req.objective,
     duration_target_sec |-> req.duration_target_sec,
     hook |-> [text |-> hook, style |-> "bold-top",
               duration_sec |-> duration_sec],
     captions |-> [strategy |-> "kinetic-subtitles", words_per_line |-> wpl,
                   emphasis |-> "verbs+numbers"],
     cuts |-> [strategy |-> "hook-fast-middle-accelerate-cta",
               target_pace |-> pace,
               scene_count_target |-> scene_count_target(req)],
     cta |-> cta]

create_reel_plan(req) ==
    ReelPlan(req, "base", _base_hook(req.platform), 250, 4, "fast",
             "Save this and try it on your next edit")

\* the variants of create_candidate_plans
Variants(base) ==
    << [id |-> "v1", hook |-> base.hook.text,
        cta |-> "Save this and try it on your next edit",
        pace |-> "fast", wpl |-> 4],
       [id |-> "v2",
        hook |-> "3 mistakes killing your engagement (fix this now)",
        cta |-> "Comment 'template' and I'll send the structure",
        pace |-> "fast", wpl |-> 3],
       [id |-> "v3", hook |-> "If your reel retention drops, do this first",
        cta |-> "Save this checklist before your next post",
        pace |-> "medium", wpl |-> 4],
       [id |-> "v4", hook |-> "The 20-second edit loop top creators repeat",
        cta |-> "Follow for part 2 with live examples",
        pace |-> "fast", wpl |-> 5],
       [id |-> "v5", hook |-> "You're one hook away from a better reel",
        cta |-> "Test this today and compare watch-time",
        pace |-> "fast", wpl |-> 4] >>

\* the length of variants[:n]
SliceLen(len, n) == IF n >= 0 THEN Min2(n, len) ELSE Max2(len + n, 0)

\* A planner that always returns three plans.
Mutant_create_candidate_plans_Three(req) ==
    LET variants == Variants(create_reel_plan(req))
    IN [i \in 1..3 |->
          ReelPlan(req, variants[i].id, variants[i].hook, 230,
                   variants[i].wpl, variants[i].pace, variants[i].cta)]

create_candidate_plans(req) ==
    LET variants == Variants(create_reel_plan(req))
    IN [i \in 1..SliceLen(Len(variants), req.candidates) |->
          ReelPlan(req, variants[i].id, variants[i].hook, 230,
                   variants[i].wpl, variants[i].pace, variants[i].cta)]

\* the keys of the dict "scored" of _pick_best, in insertion order
RECURSIVE ScoredKeys(_, _)
ScoredKeys(plans, k) ==
    IF k = 0 THEN <<>>
    ELSE LET keys == ScoredKeys(plans, k - 1)
         IN IF \E j \in 1..Len(keys) : keys[j] = plans[k].id
            THEN keys ELSE Append(keys, plans[k].id)

\* scored[id]: the total of the last plan with that id
ScoredGet(plans, cfg, id) ==
    LET at == CHOOSE i \in 1..Len(plans) :
                 /\ plans[i].id = id
                 /\ \A j \in (i + 1)..Len(plans) : plans[j].id # id
    IN score_reel_plan(plans[at], cfg).total

\* A ranking that picks the lowest total.
Mutant_pick_best_Lowest(plans, cfg) ==
    LET keys == ScoredKeys(plans, Len(plans))
        best == CHOOSE i \in 1..Len(keys) :
                   /\ \A j \in 1..Len(keys) :
                         ScoredGet(plans, cfg, keys[j])
                           >= ScoredGet(plans, cfg, keys[i])
                   /\ \A j \in 1..(i - 1) :
                         ScoredGet(plans, cfg, keys[j])
                           > ScoredGet(plans, cfg, keys[i])
        at == CHOOSE i \in 1..Len(plans) :
                 /\ plans[i].id = keys[best]
                 /\ \A j \in 1..(i - 1) : plans[j].id # keys[best]
    IN [best_plan |-> plans[at],
        ranked |-> [j \in 1..Len(keys) |->
                      [id |-> keys[j],
                       total |-> ScoredGet(plans, cfg, keys[j])]]]

\* _pick_best for a non-empty list: max(scored, key=scored.get) is the
\* first key of the highest total, best_plan the first plan with that id
_pick_best(plans, cfg) ==
    LET keys == ScoredKeys(plans, Len(plans))
        best == CHOOSE i \in 1..Len(keys) :
                   /\ \A j \in 1..Len(keys) :
                         ScoredGet(plans, cfg, keys[j])
                           <= ScoredGet(plans, cfg, keys[i])
                   /\ \A j \in 1..(i - 1) :
                         ScoredGet(plans, cfg, keys[j])
                           < ScoredGet(plans, cfg, keys[i])
        at == CHOOSE i \in 1..Len(plans) :
                 /\ plans[i].id = keys[best]
                 /\ \A j \in 1..(i - 1) : plans[j].id # keys[best]
    IN [best_plan |-> plans[at],
        ranked |-> [j \in 1..Len(keys) |->
                      [id |-> keys[j],
                       total |-> ScoredGet(plans, cfg, keys[j])]]]

\* build_score_report: the four contributions (feature, value, weight in
\* tenths), the failed gates, and vps = _bounded(total * 0.55 + 0 * 0.45)
build_score_report(plan, score, cfg) ==
    LET weights == _load_weights(cfg)
    IN [pqs |-> score.total, eps |-> 0,
        vps |-> _bounded(score.total * 55, 100),
        feature_contributions |->
            << [feature |-> "hook_strength", value |-> score.hook_strength,
                weight |-> weights.hook_strength],
               [feature |-> "pacing_density", value |-> score.pacing,
                weight |-> weights.pacing_density],
               [feature |-> "caption_readability",
                value |-> score.caption_clarity,
                weight |-> weights.caption_readability],
               [feature |-> "cta_quality", value |-> score.cta_strength,
                weight |-> weights.cta_quality] >>,
        failed_gates |->
            IF plan.hook.duration_sec > 600 THEN <<"time_to_value">>
            ELSE <<>>]

\* build_edit_suggestions: the actions suggested
build_edit_suggestions(plan) ==
    <<"trim_intro_to <=2.0s", "insert_pattern_interrupt",
      "move_cta_after_value_proof">>
    \o (IF plan.captions.words_per_line > 4
        THEN <<"reduce_caption_words_per_line_to_4">> ELSE <<>>)

\* run_agent_reel_dry_run(req) under the weights file cfg
run_agent_reel_dry_run(req, cfg) ==
    LET candidates == create_candidate_plans(req)
        picked == _pick_best(candidates, cfg)
        best_plan == picked.best_plan
        score == score_reel_plan(best_plan, cfg)
    IN [status |-> "ok",
        plan |-> best_plan,
        score |-> score,
        score_report |-> build_score_report(best_plan, score, cfg),
        edit_suggestions |-> build_edit_suggestions(best_plan),
        candidates |-> candidates,
        ranked |-> picked.ranked,
        execution |->
            [dry_run |-> TRUE,
             stages |-> << [stage |-> "ingest", status |-> "ok"],
                           [stage |-> "creative-plan", status |-> "ok"],
                           [stage |-> "rank", status |-> "ok"],
                           [stage |-> "scoring-contracts", status |-> "ok"],
                           [stage |-> "timeline-build", status |-> "todo"],
                           [stage |-> "render", status |-> "todo"] >>,
             next_actions |-> 3]]

NoResponse == [status |-> ""]

\* POST /agent/reel: a request that fails validation is answered with 422
\* and the handler does not run
agent_reel(req, cfg) ==
    IF ~ValidRequest(req)
    THEN /\ last' = Response("agent", "", 422, "validation", 0,
                             req.candidates, req.duration_target_sec)
         /\ hist' = [hist EXCEPT !.response = NoResponse]
         /\ UNCHANGED project
    ELSE /\ last' = Response("agent", "", 200, "ok", 0,
                             req.candidates, req.duration_target_sec)
         /\ hist' = [hist EXCEPT
                       !.response = run_agent_reel_dry_run(req, cfg)]
         /\ UNCHANGED project

(***************************************************************************)
(* SpecAgent: one request to the agent endpoint, for every platform (and a *)
(* name that is none), 0 to 6 candidates and duration targets around the   *)
(* limits of the request and of the scene count, under a weights file that *)
(* is missing or overrides up to MaxOverrides of the weights the variants  *)
(* differ in.                                                              *)
(***************************************************************************)
AgentDurations == {7, 8, 11, 12, 20, 29, 30, 33, 60, 61}

AgentRequests ==
    {[source_video |-> "sample.mp4", template |-> "viral-hook-v1",
      platform |-> pf, objective |-> "maximize watch-time and shares",
      duration_target_sec |-> dt, tone |-> "high-energy",
      candidates |-> n] :
        pf \in Platforms \cup {"vine"}, dt \in AgentDurations, n \in 0..6}

AgentWeightFiles ==
    {cfg \in WeightFiles :
        /\ cfg.kind # "invalid"
        /\ DOMAIN cfg.pqs \subseteq
             {"hook_strength", "pacing_density", "rewatch_loop_design",
              "caption_readability", "cta_quality"}}

InitAgent ==
    /\ project = NewProject(<<>>, 1920, 1080)
    /\ last = Response("init", "", 200, "", 0, 0, 0)
    /\ \E req \in AgentRequests, cfg \in AgentWeightFiles :
         hist = [req |-> req, cfg |-> cfg, response |-> NoResponse]
    /\ nops = 0

AgentStep ==
    /\ nops = 0
    /\ nops' = 1
    /\ agent_reel(hist.req, hist.cfg)

NextAgent == AgentStep

SpecAgent == InitAgent /\ [][NextAgent]_vars

\* C31: a valid request is answered with exactly req.candidates plans, each
\* with a non-empty id, the ids pairwise distinct, each with the request's
\* platform, template, objective and duration target and with
\* scene_count_target = duration_target_sec // 3 clamped to [4, 10].
C31_CandidatePlans ==
    (last.op = "agent" /\ last.status = 200) =>
        LET req == hist.req
            plans == hist.response.candidates
            third == req.duration_target_sec \div 3
        IN /\ Len(plans) = req.candidates
           /\ \A i \in 1..Len(plans) :
                 /\ plans[i].id # ""
                 /\ \A j \in 1..Len(plans) :
                       plans[i].id = plans[j].id => i = j
                 /\ plans[i].platform = req.platform
                 /\ plans[i].template = req.template
                 /\ plans[i].objective = req.objective
                 /\ plans[i].duration_target_sec = req.duration_target_sec
                 /\ plans[i].cuts.scene_count_target =
                      (IF third < 4 THEN 4 ELSE IF third > 10 THEN 10
                       ELSE third)

\* C31 witness: five candidates for a target of 20 s, each with 6 scenes
C31_Witness ==
    /\ last.op = "agent" /\ last.status = 200
    /\ hist.req.candidates = 5 /\ hist.req.duration_target_sec = 20
    /\ Len(hist.response.candidates) = 5
    /\ \A i \in 1..5 : hist.response.candidates[i].cuts.scene_count_target = 6

\* C32: a valid request is answered with status ok, a dry run of at least
\* three stages, a non-empty candidate list, and a plan that is one of the
\* candidates, whose total no candidate exceeds and no earlier candidate
\* equals; the score returned is the score of that plan.
C32_BestPlanSelected ==
    (last.op = "agent" /\ (last.status = 200 \/ ValidRequest(hist.req))) =>
        LET r == hist.response
        IN /\ last.status = 200
           /\ r.status = "ok"
           /\ r.execution.dry_run
           /\ Len(r.execution.stages) >= 3
           /\ Len(r.candidates) >= 1
           /\ \E i \in 1..Len(r.candidates) :
                 /\ r.candidates[i] = r.plan
                 /\ \A j \in 1..Len(r.candidates) :
                       score_reel_plan(r.candidates[j], hist.cfg).total
                         <= r.score.total
                 /\ \A j \in 1..(i - 1) :
                       score_reel_plan(r.candidates[j], hist.cfg).total
                         < r.score.total
           /\ r.score = score_reel_plan(r.plan, hist.cfg)

\* C32 witness: five candidates of which the second is selected, the first
\* and a later one having lower totals and another later one the same total
C32_Witness ==
    /\ last.op = "agent" /\ last.status = 200
    /\ Len(hist.response.candidates) = 5
    /\ hist.response.plan.id = "v2"
    /\ hist.response.plan = hist.response.candidates[2]
    /\ score_reel_plan(hist.response.candidates[1], hist.cfg).total
         < hist.response.score.total
    /\ \E j \in 3..5 :
          score_reel_plan(hist.response.candidates[j], hist.cfg).total
            < hist.response.score.total
    /\ \E j \in 3..5 :
          score_reel_plan(hist.response.candidates[j], hist.cfg).total
            = hist.response.score.total

\* the scenes cover the hundredth of a second of source time that starts at t
CoversCell(scenes, t) ==
    \E i \in 1..Len(scenes) : scenes[i].start <= t /\ t + 1 <= scenes[i].end

\* C33: a range deletion with start < end removes nothing outside the range:
\* every instant of source time that a scene covered before the call and
\* that lies outside [start, end) is covered by a scene afterwards.
C33_RangeDeleteKeepsOutside ==
    [][(last'.op = "delete_range" /\ last'.a < last'.b) =>
         \A t \in 0..999 :
            (CoversCell(project.scenes, t) /\ (t + 1 <= last'.a \/ t >= last'.b))
              => CoversCell(project'.scenes, t)]_vars

\* C35: with apply_edit and undo only, from an empty log and an empty stack,
\* the undo stack is never longer than the edit log; every apply_edit, a
\* no-op one included, adds exactly one entry to the log and one to the
\* stack (which then keeps its newest MAX_SNAPSHOTS entries); the two
\* lengths stay equal over every step except an edit made on a full stack,
\* and after such an edit the log is the longer one.
C35_StackWithinLog ==
    [][/\ Len(project'.snapshots) <= Len(project'.edits)
       /\ last'.op = "edit" =>
            /\ Len(project'.edits) = Len(project.edits) + 1
            /\ Len(project'.snapshots) =
                   Min(Len(project.snapshots) + 1, MAX_SNAPSHOTS)
       /\ (/\ Len(project.snapshots) = Len(project.edits)
           /\ ~(last'.op = "edit" /\ Len(project.snapshots) = MAX_SNAPSHOTS))
            => Len(project'.snapshots) = Len(project'.edits)
       /\ (last'.op = "edit" /\ Len(project.snapshots) = MAX_SNAPSHOTS)
            => Len(project'.snapshots) < Len(project'.edits)]_vars

\* every undoable edit has been undone and the log still holds the entries
\* of the edits that fell off the stack, whose effect on the scenes remains
C35_Witness ==
    /\ last.op = "undo" /\ last.status = 200
    /\ project.snapshots = <<>>
    /\ Len(project.edits) = MaxDeepEdits - MAX_SNAPSHOTS
    /\ project.scenes # InitProject.scenes

(***************************************************************************)
(* Sessions: edit and undo requests, chat batches (backend/api/chat.py)    *)
(* and reloads of the project from its file (Project.to_dict, save, load). *)
(***************************************************************************)
\* Number of requests and reloads in one behaviour of SpecSession.
MaxSessionOps == 4

_edit_to_dict(e) ==
    [kind |-> e.kind, target_scene_id |-> e.target_scene_id,
     params |-> e.params]

\* Project.to_dict, on the fields this model carries
to_dict(p) ==
    [width |-> p.width, height |-> p.height,
     scenes |-> [i \in 1..Len(p.scenes) |-> _scene_to_dict(p.scenes[i])],
     edits |-> [i \in 1..Len(p.edits) |-> _edit_to_dict(p.edits[i])],
     snapshots |-> p.snapshots,
     crop_width |-> p.crop_width, crop_height |-> p.crop_height,
     voiceover_path |-> p.voiceover_path,
     voiceover_text |-> p.voiceover_text,
     voiceover_voice |-> p.voiceover_voice,
     voiceover_volume |-> p.voiceover_volume,
     original_audio_volume |-> p.original_audio_volume,
     status |-> p.status, error |-> p.error]

\* A load that restores the snapshots found in the file.
Mutant_load_KeepsSnapshots(data) ==
    LET es == Get(data, "edits", <<>>)
        rest == [k \in DOMAIN data \ {"scenes", "edits"} |-> data[k]]
    IN rest @@
       [scenes |-> _scenes_from_list(Get(data, "scenes", <<>>)),
        edits |-> [i \in 1..Len(es) |->
                      Edit(es[i].kind, Get(es[i], "target_scene_id", ""),
                           Get(es[i], "params", NoParams))]]

\* Project.load: scenes and edits are rebuilt, the snapshots of the file are
\* dropped and the new Project starts with the default empty list
load(data) ==
    LET es == Get(data, "edits", <<>>)
        rest == [k \in DOMAIN data \ {"scenes", "edits", "snapshots"} |->
                    data[k]]
    IN rest @@
       [scenes |-> _scenes_from_list(Get(data, "scenes", <<>>)),
        edits |-> [i \in 1..Len(es) |->
                      Edit(es[i].kind, Get(es[i], "target_scene_id", ""),
                           Get(es[i], "params", NoParams))],
        snapshots |-> <<>>]

\* apply_edit for each edit of a list in turn, stopping at one that raises
RECURSIVE ApplyEach(_, _, _)
ApplyEach(r, edits, i) ==
    IF i > Len(edits) \/ r.raised THEN r
    ELSE ApplyEach(apply_edit(r.project, edits[i]), edits, i + 1)

\* engine.delete_dead_air
delete_dead_air(p) ==
    LET dead == SelectSeq(p.scenes, LAMBDA s : s.is_dead_air)
    IN ApplyEach(Done(p),
                 [i \in 1..Len(dead) |-> Edit("delete", dead[i].id, NoParams)],
                 1)

\* engine.add_fade_transitions, with its default duration of 0.5 s
add_fade_transitions(p) ==
    ApplyEach(Done(p),
              [i \in 1..(Len(p.scenes) - 1) |->
                  Edit("transition", p.scenes[i + 1].id,
                       [type |-> Str("fade"),
                        duration |-> Num(DEFAULT_TRANSITION_DURATION)])],
              1)

\* a command of a batch: a string, or a dict with kind, target_scene_id and
\* params
StrCmd(name) ==
    [is_str |-> TRUE, name |-> name, kind |-> "", target_scene_id |-> "",
     params |-> NoParams]

DictCmd(kind, target_scene_id, params) ==
    [is_str |-> FALSE, name |-> "", kind |-> kind,
     target_scene_id |-> target_scene_id, params |-> params]

\* the convenience function a string command names
StringCommand(p, name) ==
    CASE name = "delete_dead_air" -> delete_dead_air(p)
      [] name = "delete_filler_words" ->
           Done(delete_all_filler_words(p).project)
      [] OTHER -> add_fade_transitions(p)

\* "applied.append(cmd)" after a call that returned; a call that raised
\* leaves the loop
Applied(st, r, entry) ==
    [project |-> r.project, raised |-> r.raised,
     applied |-> IF r.raised THEN st.applied ELSE Append(st.applied, entry)]

\* one turn of the loop of _apply_commands; st.applied is the returned list
\* and st.raised says that an exception other than ValueError and KeyError
\* left the loop
CommandIter(st, cmd) ==
    IF st.raised THEN st
    ELSE IF cmd.is_str
    THEN IF cmd.name \in {"delete_dead_air", "delete_filler_words",
                          "add_fade_transitions"}
         THEN Applied(st, StringCommand(st.project, cmd.name), cmd.name)
         ELSE st
    ELSE IF cmd.kind \notin EditKinds
    THEN [st EXCEPT !.applied = Append(@, "error")]
    ELSE Applied(st,
                 apply_edit(st.project,
                            Edit(cmd.kind, cmd.target_scene_id, cmd.params)),
                 cmd.kind)

RECURSIVE CommandLoop(_, _, _)
CommandLoop(st, commands, i) ==
    IF i > Len(commands) THEN st
    ELSE CommandLoop(CommandIter(st, commands[i]), commands, i + 1)

\* A batch that takes no snapshot of its own.
Mutant_apply_commands_NoBatchSnapshot(p, commands) ==
    CommandLoop([project |-> p, applied |-> <<>>, raised |-> FALSE],
                commands, 1)

\* _apply_commands: the project afterwards and the returned list
_apply_commands(p, commands) ==
    CommandLoop([project |-> snapshot(p), applied |-> <<>>, raised |-> FALSE],
                commands, 1)

\* POST /project/{id}/chat once the commands are parsed from the answer of
\* the language model (r, the outcome of _apply_commands, is computed once)
chat_edit(commands, preview_only) ==
    IF preview_only
    THEN /\ project' = project
         /\ last' = Response("chat", "", 200, "preview", 0, 0, 0)
         /\ hist' = hist
    ELSE \E r \in {_apply_commands(project, commands)} :
            /\ project' = r.project
            /\ last' = Response("chat", "", IF r.raised THEN 500 ELSE 200,
                                IF r.raised THEN "TypeError" ELSE "ok",
                                Len(r.applied), 0, 0)
            /\ hist' = [before |-> project, commands |-> commands]

\* _get_project after the in-memory store was lost: every handler that
\* changed the project ended with _save, so the file holds its to_dict
reload_project ==
    /\ project' = load(to_dict(project))
    /\ last' = Response("load", "", 200, "ok", 0, 0, 0)
    /\ hist' = [before |-> project, loaded |-> TRUE]

(***************************************************************************)
(* SpecSession: MaxSessionOps requests (edits, undos, chat batches) and    *)
(* reloads on a three-scene project with narration.                        *)
(***************************************************************************)
SessionProject ==
    NewProject(UnitScenes, 1920, 1080)
      @@ [voiceover_path |-> "voiceover.wav", voiceover_text |-> "hello",
          voiceover_voice |-> "default", voiceover_volume |-> 80,
          original_audio_volume |-> 20]

\* the edit requests drawn: a crop and a split
SessionEdits ==
    { Edit("crop", "", [width |-> Num(1080), height |-> Num(1920)]),
      Edit("split", "a", [split_at |-> Num(200)]) }

\* the batches drawn
SessionBatches ==
    { <<>>,
      <<DictCmd("speed", "a", [speed |-> Num(200)])>>,
      <<DictCmd("split", "c", [split_at |-> Num(800)]),
        DictCmd("delete", "b", NoParams)>>,
      <<DictCmd("zoom", "a", NoParams),
        DictCmd("crop", "", [width |-> Num(1080), height |-> Num(1080)])>>,
      <<StrCmd("add_fade_transitions")>>,
      <<StrCmd("delete_dead_air"),
        DictCmd("text_overlay", "a", [text |-> Str("hi")])>>,
      <<StrCmd("delete_filler_words"), StrCmd("make_it_pop")>> }

InitSession ==
    /\ project = SessionProject
    /\ last = Response("init", "", 200, "", 0, 0, 0)
    /\ hist = [before |-> SessionProject]
    /\ nops = 0

SessionTick == nops < MaxSessionOps /\ nops' = nops + 1

SessionEditStep ==
    /\ SessionTick
    /\ \E e \in SessionEdits : edit_project(e.kind, e.target_scene_id, e.params)

SessionUndoStep == SessionTick /\ undo_last_edit

SessionChatStep ==
    /\ SessionTick
    /\ \E commands \in SessionBatches, preview_only \in BOOLEAN :
         chat_edit(commands, preview_only)

SessionReloadStep == SessionTick /\ reload_project

NextSession ==
    SessionEditStep \/ SessionUndoStep \/ SessionChatStep \/ SessionReloadStep

SpecSession == InitSession /\ [][NextSession]_vars

\* C34: undo changes the scene list, the undo stack and the edit log and
\* nothing else of the project: the crop override set by a crop edit stays
\* as it is when that edit is undone.
C34_UndoKeepsCrop ==
    [][last'.op = "undo" =>
         project' = [project EXCEPT !.scenes = project'.scenes,
                                    !.snapshots = project'.snapshots,
                                    !.edits = project'.edits]]_vars

\* a crop edit was undone: its log entry and its snapshot are gone and the
\* crop dimensions it set are still there
C34_Witness ==
    /\ last.op = "undo" /\ last.status = 200
    /\ hist.before.crop_width = 0
    /\ project.edits = hist.before.edits
    /\ project.snapshots = hist.before.snapshots
    /\ project.crop_width = 1080 /\ project.crop_height = 1920

\* the commands of a batch that carry an edit of a known kind
EditCommands(commands) ==
    SelectSeq(commands, LAMBDA c : ~c.is_str /\ c.kind \in EditKinds)

\* no command of the batch is a string
EditCommandsOnly(commands) == \A i \in 1..Len(commands) : ~commands[i].is_str

\* C36: a chat batch pushes one snapshot more than it appends log entries;
\* a batch of n edit commands pushes n+1 snapshots and appends n entries.
\* The (n+1)-th undo after such a batch succeeds, puts the stack back to
\* what it was before the batch, leaves the scenes as they were before the
\* batch and takes off the log the last entry that was there before the
\* batch.
C36_BatchExtraSnapshot ==
    [][/\ (last'.op = "chat" /\ last'.detail = "ok") =>
            LET added == Len(project'.edits) - Len(project.edits)
                n == Len(EditCommands(hist'.commands))
            IN /\ Len(project'.snapshots) = Len(project.snapshots) + added + 1
               /\ added >= n
               /\ EditCommandsOnly(hist'.commands) => added = n
       /\ (/\ last'.op = "undo"
           /\ "commands" \in DOMAIN hist
           /\ EditCommandsOnly(hist.commands)
           /\ Len(project.snapshots) = Len(hist.before.snapshots) + 1) =>
            /\ last'.status = 200
            /\ project.edits = hist.before.edits
            /\ project'.snapshots = hist.before.snapshots
            /\ project'.scenes = hist.before.scenes
            /\ project'.scenes = project.scenes
            /\ project'.edits =
                   SubSeq(hist.before.edits, 1, Len(hist.before.edits) - 1)]_vars

\* a batch of one edit command made after a split was reverted with two
\* undos: the split scenes are still there, the split's log entry is gone
\* and its snapshot is still on the stack
C36_Witness ==
    /\ last.op = "undo" /\ last.status = 200
    /\ "commands" \in DOMAIN hist
    /\ Len(EditCommands(hist.commands)) = 1 /\ Len(hist.commands) = 1
    /\ Len(hist.before.edits) = 1
    /\ hist.before.edits[1].kind = "split"
    /\ Len(hist.before.scenes) = Len(UnitScenes) + 1
    /\ project.scenes = hist.before.scenes
    /\ project.edits = <<>>
    /\ Len(project.snapshots) = 1

\* C37: reloading a project from its file reproduces every field of the
\* project (scene list in order with all scene fields, edit log, crop
\* dimensions, narration metadata, status, error) except the undo stack,
\* which is empty afterwards; an undo request on the reloaded project is
\* answered with 400 "Nothing to undo" and changes nothing, whatever the
\* edit log holds.
C37_ReloadDropsUndoStack ==
    [][/\ last'.op = "load" =>
            /\ project' = [project EXCEPT !.snapshots = <<>>]
            /\ undo(project').ok = FALSE
       /\ (last'.op = "undo" /\ "loaded" \in DOMAIN hist) =>
            /\ last'.status = 400 /\ last'.detail = "Nothing to undo"
            /\ project' = project]_vars

\* a project with a split and a crop in its log and two snapshots was
\* reloaded, and the undo that followed was refused
C37_Witness ==
    /\ last.op = "undo" /\ last.status = 400
    /\ "loaded" \in DOMAIN hist
    /\ Len(hist.before.snapshots) = 2
    /\ Len(project.edits) = 2
    /\ \E i \in 1..2 : project.edits[i].kind = "crop"
    /\ project.crop_width = 1080
    /\ Len(project.scenes) = Len(UnitScenes) + 1
    /\ project.scenes = hist.before.scenes
    /\ project.voiceover_path = "voiceover.wav"

\* C38: a render request made while the status is "rendering" is answered
\* with 409 "Already rendering", adds no background task and leaves the
\* project as it is; at no time is more than one render task of the
\* project pending or running, and while one is the status is "rendering".
C38_OneRenderAtATime ==
    [][/\ (nops' = nops + 1 /\ project.status = "rendering") =>
            /\ last'.status = 409 /\ last'.detail = "Already rendering"
            /\ project' = project
            /\ hist'.tasks = hist.tasks
       /\ Len(hist'.tasks) <= 1
       /\ hist'.tasks # <<>> => project'.status = "rendering"]_vars

\* a second request arrived before the background task of the first ran
C38_Witness ==
    /\ last.status = 409
    /\ project.status = "rendering"
    /\ Len(hist.tasks) = 1
    /\ hist.renders = 0
    /\ nops = 2

\* C39: an accepted render request sets the status to "rendering"; when its
\* background task has run, the status is "done" if render returned and
\* "error", with the message of the exception in error, if render raised:
\* "No scenes to render" on an empty timeline, "No segments were rendered
\* successfully" when no extraction succeeded.  The status is never
\* "rendering" once the task has completed.
C39_RenderEndsDoneOrError ==
    [][/\ (nops' = nops + 1 /\ last'.status = 200) =>
            project'.status = "rendering"
       /\ hist'.renders = hist.renders + 1 =>
            LET r == hist'.render
            IN /\ project'.status \in {"done", "error"}
               /\ project'.status = "done" <=> ~r.raised
               /\ r.raised => project'.error = r.message /\ r.message # ""
               /\ project.scenes = <<>> =>
                    /\ project'.status = "error"
                    /\ project'.error = "No scenes to render"
               /\ (/\ project.scenes # <<>>
                   /\ \A k \in 1..Len(r.log) :
                         /\ r.log[k].stage = "extract"
                         /\ r.log[k].runs # <<>>
                         /\ r.log[k].runs[Len(r.log[k].runs)] = "fail") =>
                    /\ project'.status = "error"
                    /\ project'.error = "No segments were rendered successfully"]_vars

\* both extractions of a two-scene timeline failed on both encoders and
\* the task ended the render in "error" with the message of the exception
C39_Witness ==
    /\ hist.renders = 1 /\ hist.tasks = <<>>
    /\ Len(project.scenes) = 2
    /\ Len(hist.render.log) = 2
    /\ hist.render.raised
    /\ project.status = "error"
    /\ project.error = "No segments were rendered successfully"

(***************************************************************************)
(* The caption overlay (backend/render/captions.py, render_caption_overlay *)
(* from "Total duration" on).  A frame rate is a whole number of frames    *)
(* per second; the instant of frame f is f / fps seconds, that is          *)
(* 100 * f / fps centiseconds.                                             *)
(***************************************************************************)
\* the edits made before an overlay is rendered, at most
MaxOverlayEdits == 2

\* "end = group[-1].end + 0.08  # tiny buffer", in centiseconds
CAPTION_BUFFER == 8

\* A lookup whose windows end with the last word, without the buffer.
Mutant_group_lookup_NoBuffer(groups) ==
    [k \in 1..Len(groups) |->
        [start |-> groups[k][1].start,
         end |-> groups[k][Len(groups[k])].end]]

\* "Pre-compute: for each group, which word is active at which time": the
\* window (start, end) of each chunk
group_lookup(groups) ==
    [k \in 1..Len(groups) |->
        [start |-> groups[k][1].start,
         end |-> groups[k][Len(groups[k])].end + CAPTION_BUFFER]]

\* "Find active group": the position of the first chunk from the k-th on
\* with start <= t <= end for t = frame_idx / fps, 0 for None
RECURSIVE active_group(_, _, _, _)
active_group(lookup, k, frame_idx, fps) ==
    IF k > Len(lookup) THEN 0
    ELSE IF /\ lookup[k].start * fps <= 100 * frame_idx
            /\ 100 * frame_idx <= lookup[k].end * fps
    THEN k
    ELSE active_group(lookup, k + 1, frame_idx, fps)

\* int(total_dur * fps) for total_dur = sum((end - start) / speed)
total_frames(p, fps) == (SumDuration4(p.scenes, Len(p.scenes)) * fps) \div 400

\* render_caption_overlay: the chunks and, frame after frame, the chunk
\* drawn (0 for an empty frame); no frame at all when there are no words
render_caption_overlay(p, fps, style) ==
    LET groups == caption_groups(p, style)
    IN IF CaptionWords(p) = <<>> THEN [groups |-> <<>>, frames |-> <<>>]
       ELSE [groups |-> groups,
             frames |-> [k \in 1..total_frames(p, fps) |->
                            active_group(group_lookup(groups), 1, k - 1,
                                         fps)]]

\* render with burn_captions, at "Generate caption overlay if requested";
\* hist.overlay holds the overlay of the latest render
caption_overlay(fps, style) ==
    /\ hist' = [before |-> hist.before, fps |-> fps, style |-> style,
                overlay |-> render_caption_overlay(project, fps, style)]
    /\ last' = Response("overlay", "", 200, "ok", 0, 0, 0)
    /\ project' = project

(***************************************************************************)
(* SpecOverlay: up to MaxOverlayEdits edits (delete, reorder, trim, speed) *)
(* on the three analysed scenes, and caption overlays of the timeline at   *)
(* 10 and 30 frames per second.                                            *)
(***************************************************************************)
OverlayKinds == {"delete", "reorder", "trim", "speed"}

OverlayParams(kind) ==
    CASE kind = "reorder" -> {[new_index |-> Num(0)]}
      [] kind = "speed" -> {[speed |-> Num(v)] : v \in {50, 200}}
      [] kind = "trim" -> {[trim_start |-> Num(200), trim_end |-> Num(0)]}
      [] OTHER -> {NoParams}

OverlayRates == {10, 30}

InitOverlay ==
    /\ project = NewProject(UnitScenes, 1920, 1080)
    /\ last = Response("init", "", 200, "", 0, 0, 0)
    /\ hist = [before |-> project]
    /\ nops = 0

OverlayEditStep ==
    /\ nops < MaxOverlayEdits
    /\ nops' = nops + 1
    /\ \E kind \in OverlayKinds :
         \E target \in {project.scenes[i].id : i \in 1..Len(project.scenes)} :
           \E params \in OverlayParams(kind) :
             edit_project(kind, target, params)

OverlayStep ==
    /\ nops' = nops
    /\ \E fps \in OverlayRates, style \in {"default", "minimal"} :
         caption_overlay(fps, style)

NextOverlay == OverlayEditStep \/ OverlayStep

SpecOverlay == InitOverlay /\ [][NextOverlay]_vars

\* the window of a chunk contains the instant of frame f: first word's
\* start <= f / fps <= last word's end + 0.08 s, in source time
InWindow(group, f, fps) ==
    /\ group[1].start * fps <= 100 * f
    /\ 100 * f <= (group[Len(group)].end + CAPTION_BUFFER) * fps

\* the position of the scene on screen at frame f of the timeline, 0 past
\* its end
PlayingScene(scenes, f, fps) ==
    IF \E i \in 1..Len(scenes) :
          /\ SumDuration4(scenes, i - 1) * fps <= 400 * f
          /\ 400 * f < SumDuration4(scenes, i) * fps
    THEN CHOOSE i \in 1..Len(scenes) :
          /\ SumDuration4(scenes, i - 1) * fps <= 400 * f
          /\ 400 * f < SumDuration4(scenes, i) * fps
    ELSE 0

\* the word w is being spoken on screen at frame f: the frame shows the
\* source instant start + (t - accumulated) * speed of the scene playing,
\* and that instant lies in [w.start, w.end]
Playing(scenes, w, f, fps) ==
    LET i == PlayingScene(scenes, f, fps)
    IN /\ i # 0
       /\ LET src == scenes[i].start * 400 * fps
                       + (400 * f - SumDuration4(scenes, i - 1) * fps)
                           * scenes[i].speed
          IN /\ \E k \in 1..Len(scenes[i].transcript) :
                   scenes[i].transcript[k] = w
             /\ w.start * 400 * fps <= src
             /\ src <= w.end * 400 * fps

\* C40: the overlay has one frame for each 1/fps of the total effective
\* duration of the timeline, and the chunk drawn on the frame of instant t
\* is the first chunk whose window [first word's start, last word's end +
\* 0.08 s], in the words' source time, contains t; the frame is empty when
\* no window does.  Scene order, trims, deletions and speeds enter only
\* through the total duration and the order of the chunks.
C40_OverlayBySourceTime ==
    ("overlay" \in DOMAIN hist /\ last.op = "overlay"
       /\ CaptionWords(project) # <<>>) =>
        LET groups == hist.overlay.groups
            frames == hist.overlay.frames
            fps == hist.fps
        IN /\ 400 * Len(frames) <=
                  SumDuration4(project.scenes, Len(project.scenes)) * fps
           /\ 400 * (Len(frames) + 1) >
                  SumDuration4(project.scenes, Len(project.scenes)) * fps
           /\ \A k \in 1..Len(frames) :
                 IF frames[k] = 0
                 THEN \A g \in 1..Len(groups) : ~InWindow(groups[g], k - 1, fps)
                 ELSE /\ frames[k] \in 1..Len(groups)
                      /\ InWindow(groups[frames[k]], k - 1, fps)
                      /\ \A g \in 1..(frames[k] - 1) :
                            ~InWindow(groups[g], k - 1, fps)

\* on an edited timeline there is a frame whose chunk holds no word spoken
\* on screen at that frame while another word is, and every frame with a
\* chunk falls within the buffered source-time window of that chunk
C40_Witness ==
    /\ "overlay" \in DOMAIN hist /\ last.op = "overlay"
    /\ project.edits # <<>>
    /\ LET groups == hist.overlay.groups
           frames == hist.overlay.frames
           words == CaptionWords(project)
       IN /\ \E k \in 1..Len(frames) :
                /\ frames[k] # 0
                /\ \E j \in 1..Len(words) :
                      Playing(project.scenes, words[j], k - 1, hist.fps)
                /\ \A j \in 1..Len(groups[frames[k]]) :
                      ~Playing(project.scenes, groups[frames[k]][j],
                               k - 1, hist.fps)
          /\ \E k \in 1..Len(frames) :
                /\ frames[k] # 0
                /\ 100 * (k - 1) >
                      groups[frames[k]][Len(groups[frames[k]])].end * hist.fps

====
